---------------------------- MODULE Spec2Model ----------------------------
(***************************************************************************)
(* A model of ice40bitstreamtool's device-configuration core               *)
(* (src/ice40bitstreamtool/deviceconfig.py): RoutingResource, the four     *)
(* tile kinds with their bit-rectangle encode/decode, and DeviceConfig      *)
(* with ingestion, freeze and whole-device encode/decode/reset.            *)
(*                                                                         *)
(* Python objects are records; a method is an operator from the object     *)
(* (and its arguments) to a record [exc, self, ...]: exc is the message of *)
(* the exception the call raised ("" when it returned), self the object as *)
(* the call left it.  Python lists are sequences (index i of the source is *)
(* index i+1 here); a dict is the sequence of its <<key, value>> items in  *)
(* insertion order.                                                        *)
(***************************************************************************)
EXTENDS Integers, Sequences, FiniteSets, TLC

VARIABLES
  rr,      \* a RoutingResource used on its own
  tile,    \* a Tile used on its own
  dev,     \* a DeviceConfig
  ret      \* the last call: [op, arg, exc, value]

vars == <<rr, tile, dev, ret>>

-----------------------------------------------------------------------------
(* Python values *)

\* Python's None where a reference to a Net is expected (a connection, a
\* dict key, a destination); a reference to a Net is its positive id.
None == 0

\* Python's None where an object is expected (a grid cell, a slot of the net
\* array, a schema of the device).
NoneObj == [type |-> "NoneType"]

\* bool is a subclass of int: False == 0 and True == 1.
False == 0
True == 1

\* bool(x) of an int, and int(bool(x))
bool(x) == IF x # 0 THEN True ELSE False

\* str(bit) of a bit of the builder, and int(c) of a character '0' or '1'
str(bit) == IF bit = 0 THEN "0" ELSE "1"
int(c) == IF c = "1" THEN 1 ELSE 0

\* The message of "no exception was raised".
NoExc == ""

Raised(r) == r.exc # NoExc

\* AttributeError of a method call on None or on a list.
AttributeError == "AttributeError"
\* IndexError of a list index out of range.
IndexError == "IndexError"

Min(S) == CHOOSE m \in S : \A n \in S : m <= n

Range(s) == { s[i] : i \in 1..Len(s) }

Pow2(n) == 2 ^ n

\* The bounds of a routing resource: the nets it may be driven from and the
\* number of its control bits.
NumSrcNets == 2
NumCtrlBits == 2

\* the nets a resource may be driven from, and the values of its control bits
SrcNets == 1..NumSrcNets
Patterns == 0..(Pow2(NumCtrlBits) - 1)

\* x & 1 and x >> 1 on non-negative integers
And1(x) == x % 2
Shr1(x) == x \div 2

\* dict: key in d, d[key], d[key] = value, d.items()
DictHas(d, k) == \E i \in 1..Len(d) : d[i][1] = k
DictGet(d, k) == d[CHOOSE i \in 1..Len(d) : d[i][1] = k][2]
DictSet(d, k, v) ==
  IF DictHas(d, k)
  THEN [i \in 1..Len(d) |-> IF d[i][1] = k THEN <<k, v>> ELSE d[i]]
  ELSE Append(d, <<k, v>>)
DictKeys(d) == { d[i][1] : i \in 1..Len(d) }

-----------------------------------------------------------------------------
(* RoutingResource *)

RoutingResource(dst_net, config_bit_coordinates, src_net_to_bit_vals_dict) ==
  [ dst_net |-> dst_net,
    config_bit_coordinates |-> config_bit_coordinates,
    src_net_to_bit_vals_dict |-> src_net_to_bit_vals_dict,
    connection |-> None ]

connect_unchecked(self, src_net) ==
  [exc |-> NoExc, self |-> [self EXCEPT !.connection = src_net]]

connect(self, src_net) ==
  IF ~DictHas(self.src_net_to_bit_vals_dict, src_net)
  THEN [exc |-> "Invalid source net", self |-> self]
  ELSE [exc |-> NoExc, self |-> [self EXCEPT !.connection = src_net]]

\* disconnect that also forgets the candidates
disconnect_forgetting(self) == [self EXCEPT !.connection = None, !.src_net_to_bit_vals_dict = <<>>]

disconnect(self) == [self EXCEPT !.connection = None]

get_config_bits_first(self) ==
  IF self.src_net_to_bit_vals_dict = <<>>
  THEN 0
  ELSE self.src_net_to_bit_vals_dict[1][2]

get_config_bits(self) ==
  IF self.connection = None
  THEN 0
  ELSE DictGet(self.src_net_to_bit_vals_dict, self.connection)

\* a nearest match: the candidate sharing the most significant set bit
set_config_bits_nearest(self, bit_config) ==
  LET d == self.src_net_to_bit_vals_dict
      near == { i \in 1..Len(d) :
                  d[i][2] # 0 /\
                  \E k \in 0..8 : /\ Pow2(k) <= d[i][2] /\ d[i][2] < Pow2(k + 1)
                                  /\ Pow2(k) <= bit_config /\ bit_config < Pow2(k + 1) }
  IN IF bit_config = 0
     THEN [exc |-> NoExc, self |-> [self EXCEPT !.connection = None]]
     ELSE IF near # {}
          THEN [exc |-> NoExc, self |-> [self EXCEPT !.connection = d[Min(near)][1]]]
          ELSE [exc |-> "Invalid routing resource bit config", self |-> self]

set_config_bits(self, bit_config) ==
  LET d == self.src_net_to_bit_vals_dict
      hits == { i \in 1..Len(d) : d[i][2] = bit_config }
  IN IF bit_config = 0
     THEN [exc |-> NoExc, self |-> [self EXCEPT !.connection = None]]
     ELSE IF hits # {}
          THEN [exc |-> NoExc, self |-> [self EXCEPT !.connection = d[Min(hits)][1]]]
          ELSE [exc |-> "Invalid routing resource bit config", self |-> self]


-----------------------------------------------------------------------------
(* _BitstreamBuilder, and the bit loops shared by the tiles *)

\* A coordinate is the tuple <<x, y>> (column, row), both from 0.
\* The builder's _config: height rows of width bits, all 0.
BitstreamBuilder(width, height) == [y \in 1..height |-> [x \in 1..width |-> 0]]

set_bit(config, coord, value) ==
  [config EXCEPT ![coord[2] + 1][coord[1] + 1] = bool(value)]

\* The config string: one row of characters per line; a row is the sequence
\* of its characters.
get_config_string(config) ==
  [y \in 1..Len(config) |-> [x \in 1..Len(config[y]) |-> str(config[y][x])]]

\* the same loop taking the coordinates last to first
RECURSIVE write_bits_msb_first(_, _, _)
write_bits_msb_first(config, coords, value) ==
  IF coords = <<>>
  THEN config
  ELSE write_bits_msb_first(
         set_bit(config, coords[Len(coords)], And1(value)),
         SubSeq(coords, 1, Len(coords) - 1), Shr1(value))

\* for bit in coords: set_bit(bit, value & 1); value >>= 1
RECURSIVE write_bits(_, _, _)
write_bits(config, coords, value) ==
  IF coords = <<>>
  THEN config
  ELSE write_bits(set_bit(config, Head(coords), And1(value)),
                  Tail(coords), Shr1(value))

\* v = 0; bit_pos = 1
\* for coord in coords:
\*   if int(bitstream[coord[1]][coord[0]]) == 1: v |= bit_pos
\*   bit_pos <<= 1
read_bit(bitstream, coord) == int(bitstream[coord[2] + 1][coord[1] + 1])

RECURSIVE read_bits_from(_, _, _, _)
read_bits_from(bitstream, coords, v, bit_pos) ==
  IF coords = <<>>
  THEN v
  ELSE read_bits_from(bitstream, Tail(coords),
                      IF read_bit(bitstream, Head(coords)) = 1
                      THEN v + bit_pos   \* v |= bit_pos: that bit of v is clear
                      ELSE v,
                      bit_pos * 2)

read_bits(bitstream, coords) == read_bits_from(bitstream, coords, 0, 1)

-----------------------------------------------------------------------------
(* Tile: the routing-resource helpers *)

\* id is the object's identity, given by whoever creates the tile.
Tile(type, x, y) ==
  [ id |-> None, type |-> type, x |-> x, y |-> y, frozen |-> FALSE,
    wires |-> <<>>, routing_switches |-> <<>>, buffers |-> <<>> ]

\* chain(self._routing_switches, self._buffers)
chain(self) == self.routing_switches \o self.buffers

\* the tile with its resources replaced by the chained list rs
unchain(self, rs) ==
  [self EXCEPT !.routing_switches = SubSeq(rs, 1, Len(self.routing_switches)),
               !.buffers = SubSeq(rs, Len(self.routing_switches) + 1, Len(rs))]

RECURSIVE config_resources(_, _)
config_resources(resources, config) ==
  IF resources = <<>>
  THEN config
  ELSE config_resources(
         Tail(resources),
         write_bits(config, Head(resources).config_bit_coordinates,
                    get_config_bits(Head(resources))))

config_bitstream_routing_resources(self, config) ==
  config_resources(self.buffers, config_resources(self.routing_switches, config))

\* the loop that decodes every resource before it assigns any connection
process_resources_atomic(resources, bitstream, i) ==
  LET dec(j) == set_config_bits(resources[j],
                                read_bits(bitstream, resources[j].config_bit_coordinates))
      bad == { j \in i..Len(resources) : Raised(dec(j)) }
  IN IF bad = {}
     THEN [exc |-> NoExc,
           resources |-> [j \in 1..Len(resources) |-> IF j >= i THEN dec(j).self ELSE resources[j]]]
     ELSE [exc |-> dec(Min(bad)).exc, resources |-> resources]

\* the resources from index i on are still to decode
RECURSIVE process_resources(_, _, _)
process_resources(resources, bitstream, i) ==
  IF i > Len(resources)
  THEN [exc |-> NoExc, resources |-> resources]
  ELSE LET r == set_config_bits(
                  resources[i],
                  read_bits(bitstream, resources[i].config_bit_coordinates))
       IN IF Raised(r)
          THEN [exc |-> r.exc, resources |-> resources]
          ELSE process_resources([resources EXCEPT ![i] = r.self], bitstream, i + 1)

process_bitstream_routing_resources(self, bitstream) ==
  LET r == process_resources(chain(self), bitstream, 1)
  IN [exc |-> r.exc, self |-> unchain(self, r.resources)]

\* the same loop skipped on a frozen tile
reset_routing_resources_unless_frozen(self) ==
  IF self.frozen
  THEN self
  ELSE unchain(self, [i \in 1..Len(chain(self)) |-> disconnect(chain(self)[i])])

reset_routing_resources(self) ==
  unchain(self, [i \in 1..Len(chain(self)) |-> disconnect(chain(self)[i])])


-----------------------------------------------------------------------------
(* LogicTile *)

LogicTileBitConfig(width, height, carry_in_set_bit, col_buf_ctrl_set_bits, lc_set_bits, neg_clk_set_bit) ==
  [ width |-> width, height |-> height,
    carry_in_set_bit |-> carry_in_set_bit,
    col_buf_ctrl_set_bits |-> col_buf_ctrl_set_bits,
    lc_set_bits |-> lc_set_bits,
    neg_clk_set_bit |-> neg_clk_set_bit ]

LogicTile(x, y, logic_tile_bit_config) ==
  Tile("logic_tile", x, y) @@
  [ bit_config |-> logic_tile_bit_config,
    carry_in_set |-> 0,
    col_buf_ctrl |-> 0,
    lc_bits |-> [i \in 1..8 |-> 0],
    neg_clk |-> False ]

\* for idx, lc_bit in enumerate(self.lc_bits): write lc_bit at lc_set_bits[idx]
RECURSIVE write_lc_bits(_, _, _, _)
write_lc_bits(config, lc_bits, lc_set_bits, idx) ==
  IF idx > Len(lc_bits)
  THEN config
  ELSE write_lc_bits(write_bits(config, lc_set_bits[idx], lc_bits[idx]),
                     lc_bits, lc_set_bits, idx + 1)

LogicTile_generate_bitstream(self) ==
  IF self.bit_config = NoneObj
  THEN [exc |-> AttributeError, value |-> <<>>]
  ELSE
    LET bc == self.bit_config
        c0 == BitstreamBuilder(bc.width, bc.height)
        c1 == set_bit(c0, bc.carry_in_set_bit, self.carry_in_set)
        c2 == write_bits(c1, bc.col_buf_ctrl_set_bits, self.col_buf_ctrl)
        c3 == write_lc_bits(c2, self.lc_bits, bc.lc_set_bits, 1)
        c4 == set_bit(c3, bc.neg_clk_set_bit, self.neg_clk)
        c5 == config_bitstream_routing_resources(self, c4)
    IN [exc |-> NoExc, value |-> get_config_string(c5)]

LogicTile_process_bitstream(self, bitstream) ==
  LET r == process_bitstream_routing_resources(self, bitstream)
      bc == self.bit_config
  IN IF Raised(r) THEN r
     ELSE IF bc = NoneObj THEN [exc |-> AttributeError, self |-> r.self]
     ELSE
       [ exc |-> NoExc,
         self |->
           [r.self EXCEPT
              !.carry_in_set = read_bit(bitstream, bc.carry_in_set_bit),
              !.col_buf_ctrl = read_bits(bitstream, bc.col_buf_ctrl_set_bits),
              !.lc_bits = [idx \in 1..Len(self.lc_bits) |->
                             IF idx <= Len(bc.lc_set_bits)
                             THEN read_bits(bitstream, bc.lc_set_bits[idx])
                             ELSE self.lc_bits[idx]],
              !.neg_clk = bool(read_bit(bitstream, bc.neg_clk_set_bit))] ]

LogicTile_reset(self) ==
  [reset_routing_resources(self) EXCEPT
     !.carry_in_set = 0,
     !.col_buf_ctrl = 0,
     !.lc_bits = [i \in 1..8 |-> 0],
     !.neg_clk = False]

-----------------------------------------------------------------------------
(* IoTile *)

IoTileBitConfig(width, height, col_buf_ctrl_set_bits, iob_0_pintype, iob_1_pintype, icegate, io_ctrl_ie_0, io_ctrl_ie_1, io_ctrl_lvds, io_ctrl_ren_0, io_ctrl_ren_1, negclk, pll_config) ==
  [ width |-> width, height |-> height,
    col_buf_ctrl_set_bits |-> col_buf_ctrl_set_bits,
    iob_0_pintype |-> iob_0_pintype,
    iob_1_pintype |-> iob_1_pintype,
    icegate |-> icegate,
    io_ctrl_ie_0 |-> io_ctrl_ie_0,
    io_ctrl_ie_1 |-> io_ctrl_ie_1,
    io_ctrl_lvds |-> io_ctrl_lvds,
    io_ctrl_ren_0 |-> io_ctrl_ren_0,
    io_ctrl_ren_1 |-> io_ctrl_ren_1,
    negclk |-> negclk,
    pll_config |-> pll_config ]

IoTile(x, y, io_tile_bit_config) ==
  Tile("io_tile", x, y) @@
  [ bit_config |-> io_tile_bit_config,
    col_buf_ctrl |-> 0,
    iob_0_pintype |-> 0,
    iob_1_pintype |-> 0,
    icegate |-> False,
    io_ctrl_ie_0 |-> False,
    io_ctrl_ie_1 |-> False,
    io_ctrl_lvds |-> False,
    io_ctrl_ren_0 |-> False,
    io_ctrl_ren_1 |-> False,
    negclk |-> False,
    pll_config |-> 0 ]

IoTile_generate_bitstream(self) ==
  IF self.bit_config = NoneObj
  THEN [exc |-> AttributeError, value |-> <<>>]
  ELSE
    LET bc == self.bit_config
        c0 == BitstreamBuilder(bc.width, bc.height)
        \* the whole of col_buf_ctrl goes to set_bit at the first coordinate
        c1 == set_bit(c0, bc.col_buf_ctrl_set_bits[1], self.col_buf_ctrl)
        c2 == write_bits(c1, bc.iob_0_pintype, self.iob_0_pintype)
        c3 == write_bits(c2, bc.iob_1_pintype, self.iob_1_pintype)
        c4 == set_bit(c3, bc.icegate, self.icegate)
        c5 == set_bit(c4, bc.io_ctrl_ie_0, self.io_ctrl_ie_0)
        c6 == set_bit(c5, bc.io_ctrl_ie_1, self.io_ctrl_ie_1)
        c7 == set_bit(c6, bc.io_ctrl_lvds, self.io_ctrl_lvds)
        c8 == set_bit(c7, bc.io_ctrl_ren_0, self.io_ctrl_ren_0)
        c9 == set_bit(c8, bc.io_ctrl_ren_1, self.io_ctrl_ren_1)
        c10 == set_bit(c9, bc.negclk, self.negclk)
        c11 == write_bits(c10, bc.pll_config, self.pll_config)
        c12 == config_bitstream_routing_resources(self, c11)
    IN [exc |-> NoExc, value |-> get_config_string(c12)]

IoTile_process_bitstream(self, bitstream) ==
  LET r == process_bitstream_routing_resources(self, bitstream)
      bc == self.bit_config
  IN IF Raised(r) THEN r
     ELSE IF bc = NoneObj THEN [exc |-> AttributeError, self |-> r.self]
     ELSE
       [ exc |-> NoExc,
         self |->
           [r.self EXCEPT
              !.col_buf_ctrl = read_bits(bitstream, bc.col_buf_ctrl_set_bits),
              !.iob_0_pintype = read_bits(bitstream, bc.iob_0_pintype),
              !.iob_1_pintype = read_bits(bitstream, bc.iob_1_pintype),
              !.icegate = bool(read_bit(bitstream, bc.icegate)),
              !.io_ctrl_ie_0 = bool(read_bit(bitstream, bc.io_ctrl_ie_0)),
              !.io_ctrl_ie_1 = bool(read_bit(bitstream, bc.io_ctrl_ie_1)),
              !.io_ctrl_lvds = bool(read_bit(bitstream, bc.io_ctrl_lvds)),
              !.io_ctrl_ren_0 = bool(read_bit(bitstream, bc.io_ctrl_ren_0)),
              !.io_ctrl_ren_1 = bool(read_bit(bitstream, bc.io_ctrl_ren_1)),
              !.negclk = bool(read_bit(bitstream, bc.negclk)),
              !.pll_config = read_bits(bitstream, bc.pll_config)] ]

IoTile_reset(self) ==
  [reset_routing_resources(self) EXCEPT
     !.col_buf_ctrl = 0,
     !.iob_0_pintype = 0,
     !.iob_1_pintype = 0,
     !.icegate = False,
     !.io_ctrl_ie_0 = False,
     !.io_ctrl_ie_1 = False,
     !.io_ctrl_lvds = False,
     !.io_ctrl_ren_0 = False,
     !.io_ctrl_ren_1 = False,
     !.negclk = False,
     !.pll_config = 0]

-----------------------------------------------------------------------------
(* RambTile *)

RambTileBitConfig(width, height, col_buf_ctrl_set_bits, negclk, ram_config_powerup) ==
  [ width |-> width, height |-> height,
    col_buf_ctrl_set_bits |-> col_buf_ctrl_set_bits,
    negclk |-> negclk,
    ram_config_powerup |-> ram_config_powerup ]

\* bit_config is the tile's _ramb_tile_bit_config
RambTile(x, y, ramb_tile_bit_config) ==
  Tile("ramb_tile", x, y) @@
  [ bit_config |-> ramb_tile_bit_config,
    col_buf_ctrl |-> 0,
    negclk |-> False,
    ram_config_powerup |-> False ]

RambTile_generate_bitstream(self) ==
  IF self.bit_config = NoneObj
  THEN [exc |-> AttributeError, value |-> <<>>]
  ELSE
    LET bc == self.bit_config
        c0 == BitstreamBuilder(bc.width, bc.height)
        c1 == write_bits(c0, bc.col_buf_ctrl_set_bits, self.col_buf_ctrl)
        c2 == set_bit(c1, bc.negclk, self.negclk)
        c3 == set_bit(c2, bc.ram_config_powerup, self.ram_config_powerup)
        c4 == config_bitstream_routing_resources(self, c3)
    IN [exc |-> NoExc, value |-> get_config_string(c4)]

RambTile_process_bitstream(self, bitstream) ==
  LET r == process_bitstream_routing_resources(self, bitstream)
      bc == self.bit_config
  IN IF Raised(r) THEN r
     ELSE IF bc = NoneObj THEN [exc |-> AttributeError, self |-> r.self]
     ELSE
       [ exc |-> NoExc,
         self |->
           [r.self EXCEPT
              !.col_buf_ctrl = read_bits(bitstream, bc.col_buf_ctrl_set_bits),
              !.negclk = bool(read_bit(bitstream, bc.negclk)),
              !.ram_config_powerup = bool(read_bit(bitstream, bc.ram_config_powerup))] ]

RambTile_reset(self) ==
  [reset_routing_resources(self) EXCEPT
     !.col_buf_ctrl = 0,
     !.negclk = False,
     !.ram_config_powerup = False]

-----------------------------------------------------------------------------
(* RamtTile *)

RamtTileBitConfig(width, height, negclk, ram_config_bits, ram_cascade_bits) ==
  [ width |-> width, height |-> height,
    negclk |-> negclk,
    ram_config_bits |-> ram_config_bits,
    ram_cascade_bits |-> ram_cascade_bits ]

\* bit_config is the tile's _ramt_tile_bit_config
RamtTile(x, y, ramt_tile_bit_config) ==
  Tile("ramt_tile", x, y) @@
  [ bit_config |-> ramt_tile_bit_config,
    negclk |-> False,
    ram_config |-> 0,
    ram_cascade |-> 0 ]

RamtTile_generate_bitstream(self) ==
  IF self.bit_config = NoneObj
  THEN [exc |-> AttributeError, value |-> <<>>]
  ELSE
    LET bc == self.bit_config
        c0 == BitstreamBuilder(bc.width, bc.height)
        c1 == set_bit(c0, bc.negclk, self.negclk)
        c2 == write_bits(c1, bc.ram_config_bits, self.ram_config)
        c3 == write_bits(c2, bc.ram_cascade_bits, self.ram_cascade)
        c4 == config_bitstream_routing_resources(self, c3)
    IN [exc |-> NoExc, value |-> get_config_string(c4)]

RamtTile_process_bitstream(self, bitstream) ==
  LET r == process_bitstream_routing_resources(self, bitstream)
      bc == self.bit_config
  IN IF Raised(r) THEN r
     ELSE IF bc = NoneObj THEN [exc |-> AttributeError, self |-> r.self]
     ELSE
       [ exc |-> NoExc,
         self |->
           [r.self EXCEPT
              !.negclk = bool(read_bit(bitstream, bc.negclk)),
              !.ram_config = read_bits(bitstream, bc.ram_config_bits),
              !.ram_cascade = read_bits(bitstream, bc.ram_cascade_bits)] ]

\* reset without the last field
RamtTile_reset_partial(self) ==
  [reset_routing_resources(self) EXCEPT
     !.negclk = False,
     !.ram_config = 0]

RamtTile_reset(self) ==
  [reset_routing_resources(self) EXCEPT
     !.negclk = False,
     !.ram_config = 0,
     !.ram_cascade = 0]

-----------------------------------------------------------------------------
(* Tile: the abstract methods, dispatched on the tile's class *)

get_type(self) == self.type

generate_bitstream(self) ==
  CASE self.type = "logic_tile" -> LogicTile_generate_bitstream(self)
    [] self.type = "io_tile"    -> IoTile_generate_bitstream(self)
    [] self.type = "ramb_tile"  -> RambTile_generate_bitstream(self)
    [] self.type = "ramt_tile"  -> RamtTile_generate_bitstream(self)

process_bitstream(self, bitstream) ==
  CASE self.type = "logic_tile" -> LogicTile_process_bitstream(self, bitstream)
    [] self.type = "io_tile"    -> IoTile_process_bitstream(self, bitstream)
    [] self.type = "ramb_tile"  -> RambTile_process_bitstream(self, bitstream)
    [] self.type = "ramt_tile"  -> RamtTile_process_bitstream(self, bitstream)

reset(self) ==
  CASE self.type = "logic_tile" -> LogicTile_reset(self)
    [] self.type = "io_tile"    -> IoTile_reset(self)
    [] self.type = "ramb_tile"  -> RambTile_reset(self)
    [] self.type = "ramt_tile"  -> RamtTile_reset(self)

\* _Freezable: the exception _ensure_not_frozen raises, NoExc when it returns
FrozenError == "You cannot manipulate a frozen object!"

ensure_not_frozen_skipped(self) == NoExc

ensure_not_frozen(self) == IF self.frozen THEN FrozenError ELSE NoExc

is_frozen(self) == self.frozen

add_wire(self, wire) ==
  IF ensure_not_frozen(self) # NoExc
  THEN [exc |-> ensure_not_frozen(self), self |-> self]
  ELSE [exc |-> NoExc, self |-> [self EXCEPT !.wires = Append(@, wire)]]

add_routing_switch(self, routing_switch) ==
  IF ensure_not_frozen(self) # NoExc
  THEN [exc |-> ensure_not_frozen(self), self |-> self]
  ELSE [exc |-> NoExc,
        self |-> [self EXCEPT !.routing_switches = Append(@, routing_switch)]]

add_buffer(self, buffer) ==
  IF ensure_not_frozen(self) # NoExc
  THEN [exc |-> ensure_not_frozen(self), self |-> self]
  ELSE [exc |-> NoExc, self |-> [self EXCEPT !.buffers = Append(@, buffer)]]

-----------------------------------------------------------------------------
(* FileSection, and the tokens of a chipdb line *)

\* A section: its type (the marker line's first token without the dot), its
\* header tokens and its body lines.  A numeral token is its integer.
FileSection(type, header, lines) == [type |-> type, header |-> header, lines |-> lines]

\* A field-name token: its text up to trailing digits, and those digits as a
\* number when it has them ("LC_3" is Name("LC_", 3), "NegClk" Word("NegClk")).
Name(text, num) == [text |-> text, num |-> num]
Word(text) == [text |-> text]

\* re.match(prefix + r"(\d+)", token), and its group(1) as an int
Match(token, prefix) == "num" \in DOMAIN token /\ token.text = prefix

\* A bit reference "B<row>[<col>]".
BitRef(row, col) == [row |-> row, col |-> col]

\* the coordinate (x, y) of a bit reference: x from the brackets, y after B
get_config_bit_coordinates(bit_config) == <<bit_config.col, bit_config.row>>

\* A slot of a schema under construction: None, or the value it was given.
Unset == <<>>
Filled(v) == <<v>>

\* [None for _ in range(n)]
Unfilled(n) == [i \in 1..n |-> Unset]

\* lst[n] for a Python index n: negative indices count from the end
InRange(lst, n) == -Len(lst) <= n /\ n < Len(lst)
At(lst, n) == IF n < 0 THEN n + Len(lst) + 1 ELSE n + 1

\* lst[n] = v on an accumulator acc = [exc, ...] holding the list in field f
\* None in lst
HasNone(lst) == \E i \in 1..Len(lst) : lst[i] = Unset
Values(lst) == [i \in 1..Len(lst) |-> lst[i][1]]

\* line[1:]
Rest(line) == SubSeq(line, 2, Len(line))

-----------------------------------------------------------------------------
(* DeviceConfig: construction and schema ingestion *)

\* The device after DeviceConfig(.device type width height num_nets).
DeviceConfig(device_type, width, height, num_nets) ==
  [ frozen |-> FALSE,
    device_type |-> device_type,
    tiles |-> [y \in 1..height |-> [x \in 1..width |-> NoneObj]],
    nets |-> [i \in 1..num_nets |-> NoneObj],
    wires |-> <<>>,
    logic_tile_bit_config |-> NoneObj,
    io_tile_bit_config |-> NoneObj,
    ramb_tile_bits_config |-> NoneObj,
    ramt_tile_bits_config |-> NoneObj ]

Coords(refs) == [i \in 1..Len(refs) |-> get_config_bit_coordinates(refs[i])]

\* lst[n] = v in field f of the accumulator, or IndexError
SetSlot(acc, f, n, v) ==
  IF InRange(acc[f], n)
  THEN [acc EXCEPT ![f][At(acc[f], n)] = Filled(v)]
  ELSE [acc EXCEPT !.exc = IndexError]

logic_line(acc, line) ==
  IF line[1] = Word("CarryInSet")
  THEN [acc EXCEPT !.carry_in_set_bit = Filled(get_config_bit_coordinates(line[2]))]
  ELSE IF Match(line[1], "ColBufCtrl.glb_netwk_")
  THEN SetSlot(acc, "col_buf_ctrl_set_bits", line[1].num, get_config_bit_coordinates(line[2]))
  ELSE IF Match(line[1], "LC_")
  THEN SetSlot(acc, "lc_set_bits", line[1].num, Coords(Rest(line)))
  ELSE IF line[1] = Word("NegClk")
  THEN [acc EXCEPT !.neg_clk_set_bit = Filled(get_config_bit_coordinates(line[2]))]
  ELSE acc

RECURSIVE logic_lines(_, _)
logic_lines(acc, lines) ==
  IF lines = <<>> \/ Raised(acc)
  THEN acc
  ELSE logic_lines(logic_line(acc, Head(lines)), Tail(lines))

process_logic_tile_bit_config_unguarded(self, section) ==
  LET acc == logic_lines([ exc |-> NoExc,
                           carry_in_set_bit |-> Unset,
                           col_buf_ctrl_set_bits |-> Unfilled(8),
                           lc_set_bits |-> Unfilled(8),
                           neg_clk_set_bit |-> Unset ], section.lines)
  IN IF Len(section.header) # 2
     THEN [exc |-> "Invalid Logic Tile bit config", self |-> self]
     ELSE IF Raised(acc) THEN [exc |-> acc.exc, self |-> self]
     ELSE IF \/ acc.carry_in_set_bit = Unset
             \/ HasNone(acc.col_buf_ctrl_set_bits)
             \/ HasNone(acc.lc_set_bits)
             \/ acc.neg_clk_set_bit = Unset
     THEN [exc |-> "Incomplete logic tile config", self |-> self]
     ELSE [exc |-> NoExc,
           self |-> [self EXCEPT !.logic_tile_bit_config =
                       LogicTileBitConfig(section.header[1], section.header[2],
                                          acc.carry_in_set_bit[1],
                                          Values(acc.col_buf_ctrl_set_bits),
                                          Values(acc.lc_set_bits),
                                          acc.neg_clk_set_bit[1])]]

process_logic_tile_bit_config(self, section) ==
  IF ensure_not_frozen(self) # NoExc
  THEN [exc |-> ensure_not_frozen(self), self |-> self]
  ELSE process_logic_tile_bit_config_unguarded(self, section)

io_line(acc, line) ==
  IF Match(line[1], "ColBufCtrl.glb_netwk_")
  THEN SetSlot(acc, "col_buf_ctrl_set_bits", line[1].num, get_config_bit_coordinates(line[2]))
  ELSE IF Match(line[1], "IOB_0.PINTYPE_")
  THEN SetSlot(acc, "iob_0_pintype", line[1].num, get_config_bit_coordinates(line[2]))
  ELSE IF Match(line[1], "IOB_1.PINTYPE_")
  THEN SetSlot(acc, "iob_1_pintype", line[1].num, get_config_bit_coordinates(line[2]))
  ELSE IF line[1] = Word("Icegate")
  THEN [acc EXCEPT !.icegate = Filled(get_config_bit_coordinates(line[2]))]
  ELSE IF line[1] = Word("IoCtrl.IE_0")
  THEN [acc EXCEPT !.io_ctrl_ie_0 = Filled(get_config_bit_coordinates(line[2]))]
  ELSE IF line[1] = Word("IoCtrl.IE_1")
  THEN [acc EXCEPT !.io_ctrl_ie_1 = Filled(get_config_bit_coordinates(line[2]))]
  ELSE IF line[1] = Word("IoCtrl.LVDS")
  THEN [acc EXCEPT !.io_ctrl_lvds = Filled(get_config_bit_coordinates(line[2]))]
  ELSE IF line[1] = Word("IoCtrl.REN_0")
  THEN [acc EXCEPT !.io_ctrl_ren_0 = Filled(get_config_bit_coordinates(line[2]))]
  ELSE IF line[1] = Word("IoCtrl.REN_1")
  THEN [acc EXCEPT !.io_ctrl_ren_1 = Filled(get_config_bit_coordinates(line[2]))]
  ELSE IF line[1] = Word("NegClk")
  THEN [acc EXCEPT !.negclk = Filled(get_config_bit_coordinates(line[2]))]
  ELSE IF Match(line[1], "PLL.PLLCONFIG_")
  THEN SetSlot(acc, "pll_config", line[1].num - 1, get_config_bit_coordinates(line[2]))
  ELSE acc

RECURSIVE io_lines(_, _)
io_lines(acc, lines) ==
  IF lines = <<>> \/ Raised(acc)
  THEN acc
  ELSE io_lines(io_line(acc, Head(lines)), Tail(lines))

process_io_tile_bit_config_unguarded(self, section) ==
  LET acc == io_lines([ exc |-> NoExc,
                        col_buf_ctrl_set_bits |-> Unfilled(8),
                        iob_0_pintype |-> Unfilled(6),
                        iob_1_pintype |-> Unfilled(6),
                        icegate |-> Unset,
                        io_ctrl_ie_0 |-> Unset,
                        io_ctrl_ie_1 |-> Unset,
                        io_ctrl_lvds |-> Unset,
                        io_ctrl_ren_0 |-> Unset,
                        io_ctrl_ren_1 |-> Unset,
                        negclk |-> Unset,
                        pll_config |-> Unfilled(9) ], section.lines)
  IN IF Len(section.header) # 2
     THEN [exc |-> "Invalid IO Tile bit config", self |-> self]
     ELSE IF Raised(acc) THEN [exc |-> acc.exc, self |-> self]
     ELSE IF \/ HasNone(acc.col_buf_ctrl_set_bits)
             \/ HasNone(acc.iob_0_pintype)
             \/ HasNone(acc.iob_1_pintype)
             \/ acc.icegate = Unset
             \/ acc.io_ctrl_ie_0 = Unset
             \/ acc.io_ctrl_ie_1 = Unset
             \/ acc.io_ctrl_lvds = Unset
             \/ acc.io_ctrl_ren_0 = Unset
             \/ acc.io_ctrl_ren_1 = Unset
             \/ acc.negclk = Unset
             \/ HasNone(acc.pll_config)
     THEN [exc |-> "Incomplete IO tile config", self |-> self]
     ELSE [exc |-> NoExc,
           self |-> [self EXCEPT !.io_tile_bit_config =
                       IoTileBitConfig(section.header[1], section.header[2],
                                       Values(acc.col_buf_ctrl_set_bits),
                                       Values(acc.iob_0_pintype),
                                       Values(acc.iob_1_pintype),
                                       acc.icegate[1],
                                       acc.io_ctrl_ie_0[1],
                                       acc.io_ctrl_ie_1[1],
                                       acc.io_ctrl_lvds[1],
                                       acc.io_ctrl_ren_0[1],
                                       acc.io_ctrl_ren_1[1],
                                       acc.negclk[1],
                                       Values(acc.pll_config))]]

process_io_tile_bit_config(self, section) ==
  IF ensure_not_frozen(self) # NoExc
  THEN [exc |-> ensure_not_frozen(self), self |-> self]
  ELSE process_io_tile_bit_config_unguarded(self, section)

ramb_line(acc, line) ==
  IF Match(line[1], "ColBufCtrl.glb_netwk_")
  THEN SetSlot(acc, "col_buf_ctrl_set_bits", line[1].num, get_config_bit_coordinates(line[2]))
  ELSE IF line[1] = Word("NegClk")
  THEN [acc EXCEPT !.negclk = Filled(get_config_bit_coordinates(line[2]))]
  ELSE IF line[1] = Word("RamConfig.PowerUp")
  THEN [acc EXCEPT !.ram_config_powerup = Filled(get_config_bit_coordinates(line[2]))]
  ELSE acc

RECURSIVE ramb_lines(_, _)
ramb_lines(acc, lines) ==
  IF lines = <<>> \/ Raised(acc)
  THEN acc
  ELSE ramb_lines(ramb_line(acc, Head(lines)), Tail(lines))

\* process_ramb_tile_bit_config returning without storing anything when a
\* slot is left None
process_ramb_tile_bit_config_unchecked(self, section) ==
  LET acc == ramb_lines([ exc |-> NoExc,
                          col_buf_ctrl_set_bits |-> Unfilled(8),
                          negclk |-> Unset,
                          ram_config_powerup |-> Unset ], section.lines)
  IN IF Len(section.header) # 2
     THEN [exc |-> "Invalid ramb tile bits config", self |-> self]
     ELSE IF Raised(acc) THEN [exc |-> acc.exc, self |-> self]
     ELSE IF \/ HasNone(acc.col_buf_ctrl_set_bits)
             \/ acc.negclk = Unset
             \/ acc.ram_config_powerup = Unset
     THEN [exc |-> NoExc, self |-> self]
     ELSE [exc |-> NoExc,
           self |-> [self EXCEPT !.ramb_tile_bits_config =
                       RambTileBitConfig(section.header[1], section.header[2],
                                         Values(acc.col_buf_ctrl_set_bits),
                                         acc.negclk[1],
                                         acc.ram_config_powerup[1])]]

process_ramb_tile_bit_config_unguarded(self, section) ==
  LET acc == ramb_lines([ exc |-> NoExc,
                          col_buf_ctrl_set_bits |-> Unfilled(8),
                          negclk |-> Unset,
                          ram_config_powerup |-> Unset ], section.lines)
  IN IF Len(section.header) # 2
     THEN [exc |-> "Invalid ramb tile bits config", self |-> self]
     ELSE IF Raised(acc) THEN [exc |-> acc.exc, self |-> self]
     ELSE IF \/ HasNone(acc.col_buf_ctrl_set_bits)
             \/ acc.negclk = Unset
             \/ acc.ram_config_powerup = Unset
     THEN [exc |-> "Incomplete ramb tile bits config", self |-> self]
     ELSE [exc |-> NoExc,
           self |-> [self EXCEPT !.ramb_tile_bits_config =
                       RambTileBitConfig(section.header[1], section.header[2],
                                         Values(acc.col_buf_ctrl_set_bits),
                                         acc.negclk[1],
                                         acc.ram_config_powerup[1])]]

process_ramb_tile_bit_config(self, section) ==
  IF ensure_not_frozen(self) # NoExc
  THEN [exc |-> ensure_not_frozen(self), self |-> self]
  ELSE process_ramb_tile_bit_config_unguarded(self, section)

ram_cascade_bit_offset == 4

ramt_line(acc, line) ==
  IF line[1] = Word("NegClk")
  THEN [acc EXCEPT !.negclk = Filled(get_config_bit_coordinates(line[2]))]
  ELSE IF Match(line[1], "RamCascade.CBIT_")
  THEN SetSlot(acc, "ram_cascade_bits", line[1].num - ram_cascade_bit_offset, get_config_bit_coordinates(line[2]))
  ELSE IF Match(line[1], "RamConfig.CBIT_")
  THEN SetSlot(acc, "ram_config_bits", line[1].num, get_config_bit_coordinates(line[2]))
  ELSE acc

RECURSIVE ramt_lines(_, _)
ramt_lines(acc, lines) ==
  IF lines = <<>> \/ Raised(acc)
  THEN acc
  ELSE ramt_lines(ramt_line(acc, Head(lines)), Tail(lines))

process_ramt_tile_bit_config_unguarded(self, section) ==
  LET acc == ramt_lines([ exc |-> NoExc,
                          negclk |-> Unset,
                          ram_config_bits |-> Unfilled(4),
                          ram_cascade_bits |-> Unfilled(4) ], section.lines)
  IN IF Len(section.header) # 2
     THEN [exc |-> "Invalid ramt tile bits config", self |-> self]
     ELSE IF Raised(acc) THEN [exc |-> acc.exc, self |-> self]
     ELSE IF \/ acc.negclk = Unset
             \/ HasNone(acc.ram_config_bits)
             \/ HasNone(acc.ram_cascade_bits)
     THEN [exc |-> "Incomplete ramt tile bits config", self |-> self]
     ELSE [exc |-> NoExc,
           self |-> [self EXCEPT !.ramt_tile_bits_config =
                       RamtTileBitConfig(section.header[1], section.header[2],
                                         acc.negclk[1],
                                         Values(acc.ram_config_bits),
                                         Values(acc.ram_cascade_bits))]]

process_ramt_tile_bit_config(self, section) ==
  IF ensure_not_frozen(self) # NoExc
  THEN [exc |-> ensure_not_frozen(self), self |-> self]
  ELSE process_ramt_tile_bit_config_unguarded(self, section)

-----------------------------------------------------------------------------
(* Wire and Net *)

Wire(name) == [name |-> name]

\* wires: the dict from a Tile (its id) to the Wire it carries there
Net(id, index) == [id |-> id, index |-> index, wires |-> <<>>, frozen |-> FALSE]

Net_add_wire(self, t, wire) ==
  IF ensure_not_frozen(self) # NoExc
  THEN [exc |-> ensure_not_frozen(self), self |-> self]
  ELSE [exc |-> NoExc, self |-> [self EXCEPT !.wires = DictSet(@, t.id, wire)]]

\* obj.freeze()
Freezable_freeze(self) == [self EXCEPT !.frozen = TRUE]

\* the reference to a Net of the net array: None for an empty slot
Ref(net) == IF net = NoneObj THEN None ELSE net.id

-----------------------------------------------------------------------------
(* DeviceConfig: placement, nets, routing resources *)

\* self._tiles[y][x] for Python indices x and y
CellInRange(self, x, y) ==
  /\ InRange(self.tiles, y)
  /\ InRange(self.tiles[At(self.tiles, y)], x)

Cell(self, x, y) == self.tiles[At(self.tiles, y)][At(self.tiles[At(self.tiles, y)], x)]

SetCell(self, x, y, t) ==
  [self EXCEPT !.tiles[At(self.tiles, y)][At(self.tiles[At(self.tiles, y)], x)] = t]

\* The identity of the Tile created for a cell, and of the Net created for
\* an index: a cell and an index get one object each (the sections explored
\* name a cell or an index once), so its place identifies the object.
TileId(self, x, y) ==
  (At(self.tiles, y) - 1) * Len(self.tiles[At(self.tiles, y)])
    + At(self.tiles[At(self.tiles, y)], x)

NetId(self, idx) == At(self.nets, idx)

\* self._tiles[y][x] = t for a Tile t just created
place_tile(self, header, t, invalid) ==
  IF ensure_not_frozen(self) # NoExc
  THEN [exc |-> ensure_not_frozen(self), self |-> self]
  ELSE IF Len(header) # 2
  THEN [exc |-> invalid, self |-> self]
  ELSE IF ~CellInRange(self, header[1], header[2])
  THEN [exc |-> IndexError, self |-> self]
  ELSE [exc |-> NoExc,
        self |-> SetCell(self, header[1], header[2],
                         [t EXCEPT !.id = TileId(self, header[1], header[2])])]

process_logic_tile(self, section) ==
  place_tile(self, section.header,
             LogicTile(section.header[1], section.header[2], self.logic_tile_bit_config),
             "Invalid Logic Tile config")

process_io_tile(self, section) ==
  place_tile(self, section.header,
             IoTile(section.header[1], section.header[2], self.io_tile_bit_config),
             "Invalid IO Tile config")

process_ramb_tile(self, section) ==
  place_tile(self, section.header,
             RambTile(section.header[1], section.header[2], self.ramb_tile_bits_config),
             "Invalid ramb tile config")

process_ramt_tile(self, section) ==
  place_tile(self, section.header,
             RamtTile(section.header[1], section.header[2], self.ramt_tile_bits_config),
             "Invalid ramt tile config")

\* one body line of process_net; st = [exc, self, net]
net_line(st, alias_config) ==
  LET x == alias_config[1]
      y == alias_config[2]
      name == alias_config[3]
      d1 == IF DictHas(st.self.wires, name)
            THEN st.self
            ELSE [st.self EXCEPT !.wires = DictSet(@, name, Wire(name))]
      wire == DictGet(d1.wires, name)
  IN IF Len(alias_config) # 3
     THEN [st EXCEPT !.exc = "Invalid net config"]
     ELSE IF ~CellInRange(d1, x, y)
     THEN [st EXCEPT !.exc = IndexError, !.self = d1]
     ELSE IF Cell(d1, x, y) = NoneObj
     THEN [st EXCEPT !.exc = AttributeError, !.self = d1]
     ELSE LET a == add_wire(Cell(d1, x, y), wire)
              n == Net_add_wire(st.net, a.self, wire)
          IN IF Raised(a)
             THEN [st EXCEPT !.exc = a.exc, !.self = d1]
             ELSE [exc |-> n.exc, self |-> SetCell(d1, x, y, a.self), net |-> n.self]

RECURSIVE net_lines(_, _)
net_lines(st, lines) ==
  IF lines = <<>> \/ Raised(st)
  THEN st
  ELSE net_lines(net_line(st, Head(lines)), Tail(lines))

process_net(self, section) ==
  LET idx == section.header[1]
      st == net_lines([exc |-> NoExc, self |-> self,
                       net |-> Net(IF InRange(self.nets, idx) THEN NetId(self, idx) ELSE None,
                                   idx)],
                      section.lines)
  IN IF ensure_not_frozen(self) # NoExc
     THEN [exc |-> ensure_not_frozen(self), self |-> self]
     ELSE IF Raised(st)
     THEN [exc |-> st.exc, self |-> st.self]
     ELSE IF ~InRange(self.nets, idx)
     THEN [exc |-> IndexError, self |-> st.self]
     ELSE [exc |-> NoExc,
           self |-> [st.self EXCEPT !.nets[At(self.nets, idx)] = st.net]]

\* int(digits, 2) of a binary literal, its digits most significant first
RECURSIVE int2(_)
int2(digits) ==
  IF digits = <<>>
  THEN 0
  ELSE 2 * int2(SubSeq(digits, 1, Len(digits) - 1)) + digits[Len(digits)]

\* list.reverse()
reverse_kept(lst) == lst

reverse(lst) == [i \in 1..Len(lst) |-> lst[Len(lst) + 1 - i]]

\* the body of a routing or buffer section as a dict; st = [exc, dict]
RECURSIVE src_net_to_bit_vals(_, _, _)
src_net_to_bit_vals(self, st, lines) ==
  IF lines = <<>> \/ Raised(st)
  THEN st
  ELSE LET config_bit_values == int2(Head(lines)[1])
           src_net_idx == Head(lines)[2]
       IN src_net_to_bit_vals(
            self,
            IF InRange(self.nets, src_net_idx)
            THEN [st EXCEPT !.dict = DictSet(@, Ref(self.nets[At(self.nets, src_net_idx)]),
                                             config_bit_values)]
            ELSE [st EXCEPT !.exc = IndexError],
            Tail(lines))

\* process_routing_switch and process_buffer: the same but for the class of
\* the resource, the list of the tile it is appended to and the message
process_routing_resource(self, section, is_switch) ==
  LET header == section.header
      x == header[1]
      y == header[2]
      dst_net_idx == header[3]
      config_bit_coordinates == reverse(Coords(SubSeq(header, 4, Len(header))))
      st == src_net_to_bit_vals(self, [exc |-> NoExc, dict |-> <<>>], section.lines)
      resource == RoutingResource(Ref(self.nets[At(self.nets, dst_net_idx)]),
                                  config_bit_coordinates, st.dict)
      a == IF is_switch
           THEN add_routing_switch(Cell(self, x, y), resource)
           ELSE add_buffer(Cell(self, x, y), resource)
  IN IF ensure_not_frozen(self) # NoExc
     THEN [exc |-> ensure_not_frozen(self), self |-> self]
     ELSE IF Len(header) < 4
     THEN [exc |-> IF is_switch THEN "Invalid routing switch config"
                   ELSE "Invalid buffer config", self |-> self]
     ELSE IF Raised(st)
     THEN [exc |-> st.exc, self |-> self]
     ELSE IF ~InRange(self.nets, dst_net_idx) \/ ~CellInRange(self, x, y)
     THEN [exc |-> IndexError, self |-> self]
     ELSE IF Cell(self, x, y) = NoneObj
     THEN [exc |-> AttributeError, self |-> self]
     ELSE IF Raised(a)
     THEN [exc |-> a.exc, self |-> self]
     ELSE [exc |-> NoExc, self |-> SetCell(self, x, y, a.self)]

process_routing_switch(self, section) == process_routing_resource(self, section, TRUE)

process_buffer(self, section) == process_routing_resource(self, section, FALSE)

-----------------------------------------------------------------------------
(* DeviceConfig: freeze, generate_bitstream, process_bitstream, reset *)

\* for net in self._nets: net.freeze(), from index i on
RECURSIVE freeze_nets(_, _)
freeze_nets(nets, i) ==
  IF i > Len(nets)
  THEN [exc |-> NoExc, nets |-> nets]
  ELSE IF nets[i] = NoneObj
  THEN [exc |-> AttributeError, nets |-> nets]
  ELSE freeze_nets([nets EXCEPT ![i] = Freezable_freeze(@)], i + 1)

freeze_tiles(tiles) ==
  [y \in 1..Len(tiles) |->
     [x \in 1..Len(tiles[y]) |->
        IF tiles[y][x] # NoneObj THEN Freezable_freeze(tiles[y][x]) ELSE tiles[y][x]]]

freeze(self) ==
  LET n == freeze_nets(self.nets, 1)
  IN [exc |-> n.exc,
      self |-> [self EXCEPT !.frozen = TRUE,
                            !.tiles = freeze_tiles(self.tiles),
                            !.nets = n.nets]]

\* A line of a text file: a marker line ".type header...", a body line, a
\* blank line or a comment line.
MarkerLine(type, header) == [kind |-> "marker", type |-> type, header |-> header, text |-> <<>>]
BodyLine(text) == [kind |-> "body", type |-> "", header |-> <<>>, text |-> text]

\* the lines of a tile's config string
BodyLines(rows) == [i \in 1..Len(rows) |-> BodyLine(rows[i])]

\* the grid positions <<x, y>> (from 0) y outer, x inner
RECURSIVE RowMajorFrom(_, _)
RowMajorFrom(tiles, y) ==
  IF y > Len(tiles)
  THEN <<>>
  ELSE [x \in 1..Len(tiles[y]) |-> <<x - 1, y - 1>>] \o RowMajorFrom(tiles, y + 1)

\* the grid positions x outer, y inner
ColumnMajor(tiles) ==
  IF Len(tiles) = 0
  THEN <<>>
  ELSE LET h == Len(tiles)
           w == Len(tiles[1])
       IN [k \in 1..(w * h) |-> <<(k - 1) \div h, (k - 1) % h>>]

RowMajor(tiles) == RowMajorFrom(tiles, 1)

\* the loop of generate_bitstream over the positions still to visit;
\* st = [exc, value]
RECURSIVE generate_tiles(_, _, _)
generate_tiles(self, st, cells) ==
  IF cells = <<>> \/ Raised(st)
  THEN st
  ELSE LET x == Head(cells)[1]
           y == Head(cells)[2]
           t == Cell(self, x, y)
           g == generate_bitstream(t)
       IN generate_tiles(
            self,
            IF t = NoneObj THEN st
            ELSE IF Raised(g) THEN [st EXCEPT !.exc = g.exc]
            ELSE [st EXCEPT !.value =
                    @ \o <<MarkerLine(get_type(t), <<x, y>>)>> \o BodyLines(g.value)],
            Tail(cells))

DeviceConfig_generate_bitstream(self) ==
  generate_tiles(self,
                 [exc |-> NoExc, value |-> <<MarkerLine("device", <<self.device_type>>)>>],
                 RowMajor(self.tiles))

\* FileSection(line, split_lines) for a marker line
SectionOf(line) == FileSection(line.type, line.header, <<>>)

\* read_file: the loop over the lines; st = [exc, sections].  A body line
\* before any marker line finds no section to add to.
UnboundLocalError == "UnboundLocalError"

RECURSIVE read_lines(_, _)
read_lines(st, lines) ==
  IF lines = <<>> \/ Raised(st)
  THEN st
  ELSE LET line == Head(lines)
           n == Len(st.sections)
       IN read_lines(
            IF line.kind \in {"blank", "comment"} THEN st
            ELSE IF line.kind = "marker"
            THEN [st EXCEPT !.sections = Append(@, SectionOf(line))]
            ELSE IF n = 0 THEN [st EXCEPT !.exc = UnboundLocalError]
            ELSE [st EXCEPT !.sections[n].lines = Append(@, line.text)],
            Tail(lines))

\* after the loop the last section is appended once more
read_file(lines) ==
  LET st == read_lines([exc |-> NoExc, sections |-> <<>>], lines)
  IN IF Raised(st) THEN st
     ELSE IF st.sections = <<>> THEN [st EXCEPT !.exc = UnboundLocalError]
     ELSE [st EXCEPT !.sections = Append(@, st.sections[Len(st.sections)])]

\* re.match(r"(io|logic|ramb|ramt)_tile", type): the type starts with a tile name
TileMatch(type) ==
  type \in { "io_tile", "logic_tile", "ramb_tile", "ramt_tile",
             "io_tile_bits", "logic_tile_bits", "ramb_tile_bits", "ramt_tile_bits" }

TypeMismatch == "Tile type mismatch between device and bitstream."

\* process_section without the comparison of the tile's kind with the
\* section's
process_section_unchecked(st, section) ==
  LET header == section.header
      x == header[1]
      y == header[2]
      t == Cell(st.self, x, y)
      r == process_bitstream(t, section.lines)
  IN IF ~TileMatch(section.type) THEN st
     ELSE IF Len(header) # 2 THEN [st EXCEPT !.exc = "Invalid tile bit config"]
     ELSE IF ~CellInRange(st.self, x, y) THEN [st EXCEPT !.exc = IndexError]
     ELSE IF t = NoneObj THEN [st EXCEPT !.exc = AttributeError]
     ELSE [exc |-> r.exc, self |-> SetCell(st.self, x, y, r.self)]

\* one section of process_bitstream; st = [exc, self]
process_section(st, section) ==
  LET header == section.header
      x == header[1]
      y == header[2]
      t == Cell(st.self, x, y)
      r == process_bitstream(t, section.lines)
  IN IF ~TileMatch(section.type) THEN st
     ELSE IF Len(header) # 2 THEN [st EXCEPT !.exc = "Invalid tile bit config"]
     ELSE IF ~CellInRange(st.self, x, y) THEN [st EXCEPT !.exc = IndexError]
     ELSE IF t = NoneObj THEN [st EXCEPT !.exc = AttributeError]
     ELSE IF get_type(t) # section.type THEN [st EXCEPT !.exc = TypeMismatch]
     ELSE [exc |-> r.exc, self |-> SetCell(st.self, x, y, r.self)]

RECURSIVE process_sections(_, _)
process_sections(st, sections) ==
  IF sections = <<>> \/ Raised(st)
  THEN st
  ELSE process_sections(process_section(st, Head(sections)), Tail(sections))

\* process_bitstream(path) of the file holding these lines
DeviceConfig_process_bitstream(self, lines) ==
  LET f == read_file(lines)
  IN IF Raised(f)
     THEN [exc |-> f.exc, self |-> self]
     ELSE process_sections([exc |-> NoExc, self |-> self], f.sections)

\* for tile in self._tiles: tile.reset() -- tile is a row of the grid, a
\* list, and a list has no reset
DeviceConfig_reset(self) ==
  IF Len(self.tiles) = 0
  THEN [exc |-> NoExc, self |-> self]
  ELSE [exc |-> AttributeError, self |-> self]

-----------------------------------------------------------------------------
(* Calls, as recorded in ret *)

Call(op, arg, exc, value) == [op |-> op, arg |-> arg, exc |-> exc, value |-> value]

NoCall == Call("", None, NoExc, None)

-----------------------------------------------------------------------------
(* The fields of a tile, and the schema coordinates each is written to *)

TileTypes == {"logic_tile", "io_tile", "ramb_tile", "ramt_tile"}

\* A field is <<attribute, 0>>, or <<"lc_bits", idx>> for entry idx (from 1)
\* of the list lc_bits.
Fields(type) ==
  CASE type = "logic_tile" ->
         {<<"carry_in_set", 0>>, <<"col_buf_ctrl", 0>>, <<"neg_clk", 0>>}
           \cup { <<"lc_bits", idx>> : idx \in 1..8 }
    [] type = "io_tile" ->
         { <<a, 0>> : a \in { "col_buf_ctrl", "iob_0_pintype", "iob_1_pintype", "icegate",
                              "io_ctrl_ie_0", "io_ctrl_ie_1", "io_ctrl_lvds",
                              "io_ctrl_ren_0", "io_ctrl_ren_1", "negclk", "pll_config" } }
    [] type = "ramb_tile" ->
         {<<"col_buf_ctrl", 0>>, <<"negclk", 0>>, <<"ram_config_powerup", 0>>}
    [] type = "ramt_tile" ->
         {<<"negclk", 0>>, <<"ram_config", 0>>, <<"ram_cascade", 0>>}

\* tile.attribute, tile.lc_bits[idx], and the assignment to either
GetField(self, f) == IF f[2] = 0 THEN self[f[1]] ELSE self[f[1]][f[2]]

SetField(self, f, v) ==
  IF f[2] = 0 THEN [self EXCEPT ![f[1]] = v] ELSE [self EXCEPT ![f[1]][f[2]] = v]

\* The coordinates generate_bitstream and process_bitstream pair with a
\* field, in their order: one coordinate for a single-bit field.
FieldCoords(self, f) ==
  LET bc == self.bit_config
      a == f[1]
  IN CASE self.type = "logic_tile" ->
            (CASE a = "carry_in_set" -> <<bc.carry_in_set_bit>>
               [] a = "col_buf_ctrl" -> bc.col_buf_ctrl_set_bits
               [] a = "lc_bits"      -> bc.lc_set_bits[f[2]]
               [] a = "neg_clk"      -> <<bc.neg_clk_set_bit>>)
       [] self.type = "io_tile" ->
            (CASE a = "col_buf_ctrl" -> bc.col_buf_ctrl_set_bits
               [] a \in {"iob_0_pintype", "iob_1_pintype", "pll_config"} -> bc[a]
               [] OTHER -> <<bc[a]>>)
       [] self.type = "ramb_tile" ->
            (CASE a = "col_buf_ctrl" -> bc.col_buf_ctrl_set_bits
               [] OTHER -> <<bc[a]>>)
       [] self.type = "ramt_tile" ->
            (CASE a = "negclk"      -> <<bc.negclk>>
               [] a = "ram_config"  -> bc.ram_config_bits
               [] a = "ram_cascade" -> bc.ram_cascade_bits)

\* the values within the width of a field: 0..2^k-1 for k coordinates
FieldValues(self, f) == 0..(Pow2(Len(FieldCoords(self, f))) - 1)

\* bit i (0 = LSB) of v
BitAt(v, i) == (v \div Pow2(i)) % 2

\* the character of a bitmap at a coordinate
CharAt(bitstream, coord) == bitstream[coord[2] + 1][coord[1] + 1]

\* resource i (from 1) of chain(self) replaced by r
SetResource(self, i, r) == unchain(self, [chain(self) EXCEPT ![i] = r])

-----------------------------------------------------------------------------
(* The .*_tile_bits sections of a chipdb.                                   *)
(* A schema rectangle is SchemaWidth columns wide; its slots are numbered    *)
(* row by row.  The first 2 * NumCtrlBits slots are left to the control     *)
(* bits of a routing switch and of a buffer; each field line takes the next *)
(* slots.  A layout places slot k at position k (layout 0) or mirrored at   *)
(* position n-1-k (layout 1).  An LC_ line lists LcBits bit references.     *)

LcBits == 2
SchemaWidth == 8
\* the layout of the schema of each kind
Layout(type) == IF type \in {"io_tile", "ramt_tile"} THEN 1 ELSE 0

LogicFieldTokens ==
  <<Word("CarryInSet")>>
    \o [i \in 1..8 |-> Name("ColBufCtrl.glb_netwk_", i - 1)]
    \o [i \in 1..8 |-> Name("LC_", i - 1)]
    \o <<Word("NegClk")>>

IoFieldTokens ==
  [i \in 1..8 |-> Name("ColBufCtrl.glb_netwk_", i - 1)]
    \o [i \in 1..6 |-> Name("IOB_0.PINTYPE_", i - 1)]
    \o [i \in 1..6 |-> Name("IOB_1.PINTYPE_", i - 1)]
    \o <<Word("Icegate"), Word("IoCtrl.IE_0"), Word("IoCtrl.IE_1"), Word("IoCtrl.LVDS"),
         Word("IoCtrl.REN_0"), Word("IoCtrl.REN_1"), Word("NegClk")>>
    \o [i \in 1..9 |-> Name("PLL.PLLCONFIG_", i)]

RambFieldTokens ==
  [i \in 1..8 |-> Name("ColBufCtrl.glb_netwk_", i - 1)]
    \o <<Word("NegClk"), Word("RamConfig.PowerUp")>>

RamtFieldTokens ==
  <<Word("NegClk")>>
    \o [i \in 1..4 |-> Name("RamCascade.CBIT_", i - 1 + ram_cascade_bit_offset)]
    \o [i \in 1..4 |-> Name("RamConfig.CBIT_", i - 1)]

FieldTokens(type) ==
  CASE type = "logic_tile" -> LogicFieldTokens
    [] type = "io_tile"    -> IoFieldTokens
    [] type = "ramb_tile"  -> RambFieldTokens
    [] type = "ramt_tile"  -> RamtFieldTokens

\* the number of bit references of a field line
NRefs(token) == IF Match(token, "LC_") THEN LcBits ELSE 1

RECURSIVE NSlots(_)
NSlots(tokens) ==
  IF tokens = <<>> THEN 2 * NumCtrlBits ELSE NRefs(Head(tokens)) + NSlots(Tail(tokens))

SchemaHeight(type) == (NSlots(FieldTokens(type)) + SchemaWidth - 1) \div SchemaWidth

SlotRef(type, layout, k) ==
  LET n == SchemaWidth * SchemaHeight(type)
      s == IF layout = 0 THEN k ELSE n - 1 - k
  IN BitRef(s \div SchemaWidth, s % SchemaWidth)

\* the field lines for the tokens still to place, slot k the next free one
RECURSIVE BitConfigLines(_, _, _, _)
BitConfigLines(type, layout, tokens, k) ==
  IF tokens = <<>>
  THEN <<>>
  ELSE << <<Head(tokens)>>
            \o [j \in 1..NRefs(Head(tokens)) |-> SlotRef(type, layout, k + j - 1)] >>
         \o BitConfigLines(type, layout, Tail(tokens), k + NRefs(Head(tokens)))

BitsType(type) ==
  CASE type = "logic_tile" -> "logic_tile_bits"
    [] type = "io_tile"    -> "io_tile_bits"
    [] type = "ramb_tile"  -> "ramb_tile_bits"
    [] type = "ramt_tile"  -> "ramt_tile_bits"

\* the section ".<type>_bits width height" and its field lines
BitsSection(type, layout) ==
  FileSection(BitsType(type), <<SchemaWidth, SchemaHeight(type)>>,
              BitConfigLines(type, layout, FieldTokens(type), 2 * NumCtrlBits))

\* the schema the device holds after ingesting that section
Schema(type, layout) ==
  LET d == DeviceConfig("1k", 0, 0, 0)
      section == BitsSection(type, layout)
  IN CASE type = "logic_tile" ->
            process_logic_tile_bit_config(d, section).self.logic_tile_bit_config
       [] type = "io_tile" ->
            process_io_tile_bit_config(d, section).self.io_tile_bit_config
       [] type = "ramb_tile" ->
            process_ramb_tile_bit_config(d, section).self.ramb_tile_bits_config
       [] type = "ramt_tile" ->
            process_ramt_tile_bit_config(d, section).self.ramt_tile_bits_config

\* the bit references of a routing switch (which = 0) or a buffer (which = 1)
ResourceRefs(type, layout, which) ==
  [j \in 1..NumCtrlBits |-> SlotRef(type, layout, which * NumCtrlBits + j - 1)]

\* LogicTile(x, y, schema), IoTile(...), RambTile(...), RamtTile(...)
NewTile(type, x, y, schema) ==
  CASE type = "logic_tile" -> LogicTile(x, y, schema)
    [] type = "io_tile"    -> IoTile(x, y, schema)
    [] type = "ramb_tile"  -> RambTile(x, y, schema)
    [] type = "ramt_tile"  -> RamtTile(x, y, schema)

-----------------------------------------------------------------------------
(* SpecTile: one tile on its own.                                           *)
(* The tile is constructed with the schema of its kind and given a routing  *)
(* switch driving net 3 from nets 1 (pattern 1) and 2 (pattern 2) and a     *)
(* buffer driving net 1 from net 3 (pattern 1).  A field is assigned any    *)
(* value within its width while the others are all 0 or all at their        *)
(* maximum.                                                                 *)

TileSwitch(type, layout) ==
  RoutingResource(3, reverse(Coords(ResourceRefs(type, layout, 0))), <<<<1, 1>>, <<2, 2>>>>)

TileBuffer(type, layout) ==
  RoutingResource(1, reverse(Coords(ResourceRefs(type, layout, 1))), <<<<3, 1>>>>)

FreshTile(type, layout) ==
  add_buffer(add_routing_switch(NewTile(type, 0, 0, Schema(type, layout)),
                                TileSwitch(type, layout)).self,
             TileBuffer(type, layout)).self

\* the largest value within the width of a field
MaxValue(self, f) == Pow2(Len(FieldCoords(self, f))) - 1

\* every field at 0 (b = 0) or at its maximum (b = 1)
Background(self, b) ==
  \A h \in Fields(self.type) : GetField(self, h) = IF b = 0 THEN 0 ELSE MaxValue(self, h)

TileInit ==
  /\ tile \in { FreshTile(type, Layout(type)) : type \in TileTypes }
  /\ rr = NoneObj
  /\ dev = NoneObj
  /\ ret = NoCall

\* the tile becomes t and the call is recorded
TileStep(t, call) ==
  /\ tile' = t
  /\ ret' = call
  /\ UNCHANGED <<rr, dev>>

\* tile.<field> = v for any field and any value within its width, on a tile
\* whose fields are all at the background
TileAssign ==
  /\ \E b \in {0, 1} : Background(tile, b)
  /\ \E f \in Fields(tile.type) :
       \E v \in FieldValues(tile, f) :
          TileStep(SetField(tile, f, v), Call("assign", <<f, v>>, NoExc, None))

TileGenerate ==
  LET g == generate_bitstream(tile)
  IN TileStep(tile, Call("Tile.generate_bitstream", None, g.exc, g.value))

\* A bitmap of the tile's rectangle: the control bits of resource i hold the
\* pattern v (bit k at the k-th coordinate), those of the other resources 0,
\* every other position the character c.
Bitmap(self, c, i, v) ==
  [y \in 1..self.bit_config.height |->
     [x \in 1..self.bit_config.width |->
        LET at(j) == { k \in 1..Len(chain(self)[j].config_bit_coordinates) :
                         chain(self)[j].config_bit_coordinates[k] = <<x - 1, y - 1>> }
        IN IF \E j \in 1..Len(chain(self)) : at(j) # {}
           THEN IF i \in 1..Len(chain(self)) /\ at(i) # {}
                THEN str(BitAt(v, Min(at(i)) - 1))
                ELSE "0"
           ELSE c]]

\* a bitmap with the same character everywhere
Uniform(self, c) ==
  [y \in 1..self.bit_config.height |-> [x \in 1..self.bit_config.width |-> c]]

TileProcess(bitstream) ==
  LET r == process_bitstream(tile, bitstream)
  IN TileStep(r.self, Call("Tile.process_bitstream", bitstream, r.exc, None))

\* the bitmap generate_bitstream has just returned is handed back
TileProcessGenerated ==
  /\ ret.op = "Tile.generate_bitstream"
  /\ ~Raised(ret)
  /\ TileProcess(ret.value)

TileReset == TileStep(reset(tile), Call("Tile.reset", None, NoExc, None))

TileNext ==
  \/ TileAssign
  \/ TileGenerate
  \/ TileProcessGenerated
  \/ \E c \in {"0", "1"} : TileProcess(Bitmap(tile, c, 1, 1))
  \/ TileReset

SpecTile == TileInit /\ [][TileNext]_vars

\* Every field of the tile obeys the bit-order law in the bitmap b: bit i of
\* its value is the character at the field's i-th coordinate.
BitOrder(self, b) ==
  \A f \in Fields(self.type) :
     \A i \in 1..Len(FieldCoords(self, f)) :
        CharAt(b, FieldCoords(self, f)[i]) = str(BitAt(GetField(self, f), i - 1))

\* process_bitstream of the bitmap b, into the tile after reset, returns and
\* leaves every field with the value it has in self.
Recovered(self, b) ==
  LET r == process_bitstream(reset(self), b)
  IN /\ ~Raised(r)
     /\ \A f \in Fields(self.type) : GetField(r.self, f) = GetField(self, f)

\* the coordinates the schema of the tile binds are pairwise distinct
DistinctCoords(self) ==
  LET bound == UNION { { <<f, i>> : i \in 1..Len(FieldCoords(self, f)) } : f \in Fields(self.type) }
  IN Cardinality({ FieldCoords(self, p[1])[p[2]] : p \in bound }) = Cardinality(bound)

BitOrderLaw(types) ==
  (ret.op = "Tile.generate_bitstream" /\ tile.type \in types /\ DistinctCoords(tile))
    => /\ ~Raised(ret)
       /\ BitOrder(tile, ret.value)
       /\ Recovered(tile, ret.value)

\* C2: whenever LogicTile, RambTile or RamtTile.generate_bitstream has
\* returned a bitmap for a tile whose schema binds pairwise distinct
\* coordinates, bit i (0 = LSB) of every field value is the character at the
\* field's i-th coordinate (a single-bit field at its one coordinate), and
\* process_bitstream of that bitmap recovers every value.
C2_BitOrderLaw == BitOrderLaw({"logic_tile", "ramb_tile", "ramt_tile"})

\* a multi-bit field holds a value whose bits are not a palindrome, and the
\* bitmap has been generated
C2_Witness ==
  /\ ret.op = "Tile.generate_bitstream"
  /\ tile.type = "ramt_tile"
  /\ DistinctCoords(tile)
  /\ tile.ram_cascade = 6
  /\ tile.ram_config = 0
  /\ BitOrder(tile, ret.value)

\* C3: whenever IoTile.generate_bitstream has returned a bitmap, bit i
\* (0 = LSB) of col_buf_ctrl, of each pintype and of pll_config is the
\* character at the field's i-th coordinate, and process_bitstream of that
\* bitmap recovers every IO field.
C3_IoBitOrderLaw == BitOrderLaw({"io_tile"})

\* C24: Tile.reset() of a tile of any kind, from any state, returns and
\* leaves every field at the value it has in a tile just constructed and
\* every routing switch and buffer disconnected; generate_bitstream() of the
\* tile then gives height rows of width '0' characters; and the wire list,
\* the two resource lists with each resource's destination, coordinates and
\* candidates, the kind and the schema are as they were.
C24_TileReset ==
  [][ ret'.op = "Tile.reset"
        => /\ ~Raised(ret')
           /\ \A f \in Fields(tile.type) :
                 GetField(tile', f) = GetField(NewTile(tile.type, tile.x, tile.y, tile.bit_config), f)
           /\ \A i \in 1..Len(chain(tile')) : chain(tile')[i].connection = None
           /\ generate_bitstream(tile') = [exc |-> NoExc, value |-> Uniform(tile, "0")]
           /\ tile'.wires = tile.wires
           /\ tile'.type = tile.type
           /\ tile'.bit_config = tile.bit_config
           /\ Len(tile'.routing_switches) = Len(tile.routing_switches)
           /\ Len(tile'.buffers) = Len(tile.buffers)
           /\ \A i \in 1..Len(chain(tile)) :
                 chain(tile')[i] = [chain(tile)[i] EXCEPT !.connection = None] ]_vars

\* reset has been called on a tile with a routing switch and a buffer, and
\* every field is 0 and nothing is connected
C24_Witness ==
  /\ ret.op = "Tile.reset"
  /\ tile.type = "ramt_tile"
  /\ Len(chain(tile)) = 2
  /\ \A f \in Fields(tile.type) : GetField(tile, f) = 0
  /\ \A i \in 1..Len(chain(tile)) : chain(tile)[i].connection = None

-----------------------------------------------------------------------------
(* SpecLive: the live configuration of one tile, before and after           *)
(* Tile.freeze() -- the call DeviceConfig.freeze() makes on every tile of   *)
(* the grid.  Fields are assigned the ends of their ranges, at most one     *)
(* field away from the background at a time.                                *)

LiveInit ==
  /\ tile \in { FreshTile(type, Layout(type)) : type \in TileTypes }
  /\ rr = NoneObj
  /\ dev = NoneObj
  /\ ret = NoCall

\* tile.<field> = v for the other end of the field's range, when no other
\* field is away from the background
LiveAssign(f, v) ==
  /\ GetField(tile, f) # v
  /\ \E b \in {0, 1} : Background(SetField(tile, f, IF b = 0 THEN 0 ELSE MaxValue(tile, f)), b)
  /\ TileStep(SetField(tile, f, v), Call("assign", <<f, v>>, NoExc, None))

LiveFreeze == TileStep(Freezable_freeze(tile), Call("Tile.freeze", None, NoExc, None))

LiveConnect(i, src_net) ==
  LET r == connect(chain(tile)[i], src_net)
  IN TileStep(SetResource(tile, i, r.self), Call("connect", <<i, src_net>>, r.exc, None))

LiveDisconnect(i) ==
  TileStep(SetResource(tile, i, disconnect(chain(tile)[i])),
           Call("disconnect", <<i>>, NoExc, None))

LiveSetConfigBits(i, bit_config) ==
  LET r == set_config_bits(chain(tile)[i], bit_config)
  IN TileStep(SetResource(tile, i, r.self),
              Call("set_config_bits", <<i, bit_config>>, r.exc, None))

LiveNext ==
  \/ \E f \in Fields(tile.type) : \E v \in {0, MaxValue(tile, f)} : LiveAssign(f, v)
  \/ LiveFreeze
  \/ \E i \in 1..Len(chain(tile)), src_net \in 0..3 : LiveConnect(i, src_net)
  \/ \E i \in 1..Len(chain(tile)) : LiveDisconnect(i)
  \/ \E i \in 1..Len(chain(tile)), bit_config \in Patterns : LiveSetConfigBits(i, bit_config)
  \/ \E c \in {"0", "1"} : TileProcess(Uniform(tile, c))
  \/ \E c \in {"0", "1"}, i \in 1..Len(chain(tile)) : TileProcess(Bitmap(tile, c, i, 1))
  \/ TileReset

SpecLive == LiveInit /\ [][LiveNext]_vars

\* the characters of the bitmap b at the coordinates coords are the bits of v,
\* least significant first
Holds(b, coords, v) ==
  \A k \in 1..Len(coords) : int(CharAt(b, coords[k])) = BitAt(v, k - 1)

\* the tile t with resource i connected to src_net
Connected(t, i, src_net) == SetResource(t, i, [chain(t)[i] EXCEPT !.connection = src_net])

\* the pattern v is 0 or listed by the resource r
Listed(r, v) ==
  v = 0 \/ \E j \in 1..Len(r.src_net_to_bit_vals_dict) : r.src_net_to_bit_vals_dict[j][2] = v

\* the bitmap b gives every resource of t the pattern 0 or a listed pattern
ValidBitmap(t, b) ==
  \A i \in 1..Len(chain(t)) :
     \E v \in Patterns : Listed(chain(t)[i], v) /\ Holds(b, chain(t)[i].config_bit_coordinates, v)

\* the step from the tile t to the tile u made the call recorded in c, the
\* call returned and took its effect
LiveEffect(t, u, c) ==
  /\ c.exc = NoExc
  /\ c.op = "connect" => u = Connected(t, c.arg[1], c.arg[2])
  /\ c.op = "disconnect" => u = Connected(t, c.arg[1], None)
  /\ c.op = "set_config_bits" =>
       \E src_net \in DictKeys(chain(t)[c.arg[1]].src_net_to_bit_vals_dict) \cup {None} :
          /\ u = Connected(t, c.arg[1], src_net)
          /\ (src_net = None) = (c.arg[2] = 0)
          /\ src_net # None =>
               DictGet(chain(t)[c.arg[1]].src_net_to_bit_vals_dict, src_net) = c.arg[2]
  /\ c.op = "Tile.process_bitstream" =>
       /\ \A f \in Fields(t.type) :
             /\ GetField(u, f) \in FieldValues(t, f)
             /\ Holds(c.arg, FieldCoords(t, f), GetField(u, f))
       /\ \A i \in 1..Len(chain(t)) :
             /\ chain(u)[i] = [chain(t)[i] EXCEPT !.connection = chain(u)[i].connection]
             /\ Holds(c.arg, chain(t)[i].config_bit_coordinates, get_config_bits(chain(u)[i]))
       /\ u.wires = t.wires /\ u.bit_config = t.bit_config
  /\ c.op = "Tile.reset" =>
       /\ \A f \in Fields(t.type) : GetField(u, f) = 0
       /\ \A i \in 1..Len(chain(t)) : chain(u)[i] = [chain(t)[i] EXCEPT !.connection = None]
       /\ u.wires = t.wires /\ u.bit_config = t.bit_config
  /\ c.op = "assign" => u = SetField(t, c.arg[1], c.arg[2])

\* the call recorded in c is one the freeze law leaves open, with arguments
\* the resource or the tile accepts
LiveCall(t, c) ==
  \/ c.op = "connect" /\ DictHas(chain(t)[c.arg[1]].src_net_to_bit_vals_dict, c.arg[2])
  \/ c.op = "disconnect"
  \/ c.op = "set_config_bits" /\ Listed(chain(t)[c.arg[1]], c.arg[2])
  \/ c.op = "Tile.process_bitstream" /\ ValidBitmap(t, c.arg)
  \/ c.op = "Tile.reset"
  \/ c.op = "assign"

\* C6: on a frozen tile -- a tile of a frozen device -- connect with a
\* declared candidate, disconnect, set_config_bits with 0 or a listed pattern,
\* process_bitstream, reset and the assignment of a field all return and take
\* their effect, the one they take on a tile that is not frozen, and the tile
\* stays frozen.
C6_LiveAfterFreeze ==
  [][ LiveCall(tile, ret') => (LiveEffect(tile, tile', ret') /\ tile'.frozen = tile.frozen) ]_vars

\* a frozen tile on which reset has just cleared a field and a connection
\* that were set after the freeze
C6_Witness ==
  /\ tile.frozen
  /\ ret.op = "Tile.reset"
  /\ \A f \in Fields(tile.type) : GetField(tile, f) = 0
  /\ \A i \in 1..Len(chain(tile)) : chain(tile)[i].connection = None


-----------------------------------------------------------------------------
(* The sections of a chipdb for a grid of Width x Height cells and NumNets  *)
(* nets.  Cell (0,0) takes a logic or a ramb tile, cell (1,0) an io or a    *)
(* ramt tile.  Net 0 runs through both cells on wire w0, every other net    *)
(* through cell (1,0) on wire w1.  Cell (0,0) carries a routing switch      *)
(* driving net 1 from net 0 (pattern 1) or net 1 (pattern 2), and a buffer  *)
(* driving net 0 from net 1 (pattern 1).                                    *)

Width == 2
Height == 1
NumNets == 2

DeviceType == "1k"

NewDevice == DeviceConfig(DeviceType, Width, Height, NumNets)

\* the device after the four .*_tile_bits sections
WithSchemas(d) ==
  LET d1 == process_logic_tile_bit_config(d, BitsSection("logic_tile", Layout("logic_tile"))).self
      d2 == process_io_tile_bit_config(d1, BitsSection("io_tile", Layout("io_tile"))).self
      d3 == process_ramb_tile_bit_config(d2, BitsSection("ramb_tile", Layout("ramb_tile"))).self
  IN process_ramt_tile_bit_config(d3, BitsSection("ramt_tile", Layout("ramt_tile"))).self

\* the cell a tile section of each kind names
PlaceAt(type) == IF type \in {"logic_tile", "ramb_tile"} THEN <<0, 0>> ELSE <<1, 0>>

TileSection(type) == FileSection(type, PlaceAt(type), <<>>)

NetSection(idx) ==
  FileSection("net", <<idx>>,
              IF idx = 0 THEN << <<0, 0, "w0">>, <<1, 0, "w0">> >> ELSE << <<1, 0, "w1">> >>)

\* the binary literal of v on NumCtrlBits digits, most significant first
Digits(v) == [k \in 1..NumCtrlBits |-> BitAt(v, NumCtrlBits - k)]

RoutingSection ==
  FileSection("routing", <<0, 0, 1>> \o ResourceRefs("logic_tile", 0, 0),
              << <<Digits(1), 0>>, <<Digits(2), 1>> >>)

BufferSection ==
  FileSection("buffer", <<0, 0, 0>> \o ResourceRefs("logic_tile", 0, 1),
              << <<Digits(1), 1>> >>)

\* process_<type>(section) and process_<type>_bits(section) by kind
place(self, type) ==
  CASE type = "logic_tile" -> process_logic_tile(self, TileSection(type))
    [] type = "io_tile"    -> process_io_tile(self, TileSection(type))
    [] type = "ramb_tile"  -> process_ramb_tile(self, TileSection(type))
    [] type = "ramt_tile"  -> process_ramt_tile(self, TileSection(type))

\* every cell a net section names holds a tile
NetPlaced(self, idx) ==
  \A k \in 1..Len(NetSection(idx).lines) :
     Cell(self, NetSection(idx).lines[k][1], NetSection(idx).lines[k][2]) # NoneObj

\* the text of a bitstream file with one tile section
Text(type, x, y, bitmap) ==
  <<MarkerLine("device", <<DeviceType>>), MarkerLine(type, <<x, y>>)>> \o BodyLines(bitmap)

-----------------------------------------------------------------------------
(* Spec: building a device and freezing it.                                 *)
(* The device starts constructed, with its four schemas ingested.  While it *)
(* is not frozen a section is ingested once, after the tiles and nets it    *)
(* names; once it is frozen every ingestion call is made, and so are the    *)
(* add methods of its frozen tiles and nets.                                *)

Init ==
  /\ dev = WithSchemas(NewDevice)
  /\ rr = NoneObj
  /\ tile = NoneObj
  /\ ret = NoCall

\* the device becomes r.self and the call is recorded
DevStep(r, op, arg) ==
  /\ dev' = r.self
  /\ ret' = Call(op, arg, r.exc, None)
  /\ UNCHANGED <<rr, tile>>

ProcessLogicTileBitConfig ==
  DevStep(process_logic_tile_bit_config(dev, BitsSection("logic_tile", Layout("logic_tile"))),
          "process_logic_tile_bit_config", None)

ProcessIoTileBitConfig ==
  DevStep(process_io_tile_bit_config(dev, BitsSection("io_tile", Layout("io_tile"))),
          "process_io_tile_bit_config", None)

ProcessRambTileBitConfig ==
  DevStep(process_ramb_tile_bit_config(dev, BitsSection("ramb_tile", Layout("ramb_tile"))),
          "process_ramb_tile_bit_config", None)

ProcessRamtTileBitConfig ==
  DevStep(process_ramt_tile_bit_config(dev, BitsSection("ramt_tile", Layout("ramt_tile"))),
          "process_ramt_tile_bit_config", None)

CellFree(type) == Cell(dev, PlaceAt(type)[1], PlaceAt(type)[2]) = NoneObj

ProcessLogicTile ==
  /\ dev.frozen \/ CellFree("logic_tile")
  /\ DevStep(place(dev, "logic_tile"), "process_logic_tile", PlaceAt("logic_tile"))

ProcessIoTile ==
  /\ dev.frozen \/ CellFree("io_tile")
  /\ DevStep(place(dev, "io_tile"), "process_io_tile", PlaceAt("io_tile"))

ProcessRambTile ==
  /\ dev.frozen \/ CellFree("ramb_tile")
  /\ DevStep(place(dev, "ramb_tile"), "process_ramb_tile", PlaceAt("ramb_tile"))

ProcessRamtTile ==
  /\ dev.frozen \/ CellFree("ramt_tile")
  /\ DevStep(place(dev, "ramt_tile"), "process_ramt_tile", PlaceAt("ramt_tile"))

ProcessNet(idx) ==
  /\ dev.frozen \/ (dev.nets[idx + 1] = NoneObj /\ NetPlaced(dev, idx))
  /\ DevStep(process_net(dev, NetSection(idx)), "process_net", idx)

\* the tile and the nets a routing or buffer section names are there
ResourceReady ==
  /\ Cell(dev, 0, 0) # NoneObj
  /\ dev.nets[1] # NoneObj
  /\ dev.nets[2] # NoneObj

ProcessRoutingSwitch ==
  /\ dev.frozen \/ (ResourceReady /\ Cell(dev, 0, 0).routing_switches = <<>>)
  /\ DevStep(process_routing_switch(dev, RoutingSection), "process_routing_switch", None)

ProcessBuffer ==
  /\ dev.frozen \/ (ResourceReady /\ Cell(dev, 0, 0).buffers = <<>>)
  /\ DevStep(process_buffer(dev, BufferSection), "process_buffer", None)

\* the device with the result r of a method of the tile at (x, y)
WithTile(self, x, y, r) == [exc |-> r.exc, self |-> SetCell(self, x, y, r.self)]

\* get_tiles()[y][x].add_wire(wire) on a frozen tile
TileAddWire(x, y) ==
  /\ Cell(dev, x, y) # NoneObj
  /\ Cell(dev, x, y).frozen
  /\ DevStep(WithTile(dev, x, y, add_wire(Cell(dev, x, y), Wire("w0"))),
             "Tile.add_wire", <<x, y>>)

TileAddRoutingSwitch(x, y) ==
  /\ Cell(dev, x, y) # NoneObj
  /\ Cell(dev, x, y).frozen
  /\ DevStep(WithTile(dev, x, y,
                      add_routing_switch(Cell(dev, x, y),
                                         TileSwitch(Cell(dev, x, y).type, Layout(Cell(dev, x, y).type)))),
             "Tile.add_routing_switch", <<x, y>>)

TileAddBuffer(x, y) ==
  /\ Cell(dev, x, y) # NoneObj
  /\ Cell(dev, x, y).frozen
  /\ DevStep(WithTile(dev, x, y,
                      add_buffer(Cell(dev, x, y),
                                 TileBuffer(Cell(dev, x, y).type, Layout(Cell(dev, x, y).type)))),
             "Tile.add_buffer", <<x, y>>)

\* get_nets()[idx].add_wire(tile, wire) on a frozen net
NetAddWire(idx, x, y) ==
  /\ dev.nets[idx + 1] # NoneObj
  /\ dev.nets[idx + 1].frozen
  /\ Cell(dev, x, y) # NoneObj
  /\ LET r == Net_add_wire(dev.nets[idx + 1], Cell(dev, x, y), Wire("w1"))
     IN DevStep([exc |-> r.exc, self |-> [dev EXCEPT !.nets[idx + 1] = r.self]],
                "Net.add_wire", idx)

Freeze == DevStep(freeze(dev), "freeze", None)

\* the text of a bitstream file that gives every field of every placed tile
\* its maximum and the first resource of every tile the pattern 1
RECURSIVE OnesFrom(_, _)
OnesFrom(self, cells) ==
  IF cells = <<>>
  THEN <<>>
  ELSE LET x == Head(cells)[1]
           y == Head(cells)[2]
           t == Cell(self, x, y)
       IN (IF t = NoneObj
           THEN <<>>
           ELSE <<MarkerLine(t.type, <<x, y>>)>> \o BodyLines(Bitmap(t, "1", 1, 1)))
          \o OnesFrom(self, Tail(cells))

Ones(self) == <<MarkerLine("device", <<DeviceType>>)>> \o OnesFrom(self, RowMajor(self.tiles))

ProcessBitstream ==
  DevStep(DeviceConfig_process_bitstream(dev, Ones(dev)), "process_bitstream", None)

Next ==
  \/ ProcessLogicTileBitConfig
  \/ ProcessIoTileBitConfig
  \/ ProcessRambTileBitConfig
  \/ ProcessRamtTileBitConfig
  \/ ProcessLogicTile
  \/ ProcessIoTile
  \/ ProcessRambTile
  \/ ProcessRamtTile
  \/ \E idx \in 0..(NumNets - 1) : ProcessNet(idx)
  \/ ProcessRoutingSwitch
  \/ ProcessBuffer
  \/ \E x \in 0..(Width - 1), y \in 0..(Height - 1) : TileAddWire(x, y)
  \/ \E x \in 0..(Width - 1), y \in 0..(Height - 1) : TileAddRoutingSwitch(x, y)
  \/ \E x \in 0..(Width - 1), y \in 0..(Height - 1) : TileAddBuffer(x, y)
  \/ \E idx \in 0..(NumNets - 1), x \in 0..(Width - 1), y \in 0..(Height - 1) : NetAddWire(idx, x, y)
  \/ Freeze
  \/ ProcessBitstream

Spec == Init /\ [][Next]_vars

\* the ingestion methods of DeviceConfig
DeviceIngestion ==
  { "process_logic_tile_bit_config", "process_io_tile_bit_config",
    "process_ramb_tile_bit_config", "process_ramt_tile_bit_config",
    "process_logic_tile", "process_io_tile", "process_ramb_tile", "process_ramt_tile",
    "process_net", "process_routing_switch", "process_buffer" }

\* the call recorded in c is an ingestion call on the device d once it is
\* frozen, or an add method of a frozen tile or net of d
FrozenIngestion(d, c) ==
  \/ c.op \in DeviceIngestion /\ d.frozen
  \/ /\ c.op \in {"Tile.add_wire", "Tile.add_routing_switch", "Tile.add_buffer"}
     /\ Cell(d, c.arg[1], c.arg[2]).frozen
  \/ c.op = "Net.add_wire" /\ d.nets[c.arg + 1].frozen

\* C4: every ingestion call on a frozen device, and every add_wire,
\* add_routing_switch and add_buffer on a frozen tile or net, raises the
\* frozen-object exception and leaves the whole device -- grid, schemas, net
\* array, wire table, the tiles' lists, fields and connections -- as it was.
C4_FreezeLaw ==
  [][ FrozenIngestion(dev, ret') => (ret'.exc = FrozenError /\ dev' = dev) ]_vars

\* a frozen device holding tiles, nets and a routing switch, with fields
\* away from their defaults, on which process_net has just been refused
C4_Witness ==
  /\ dev.frozen
  /\ ret.op = "process_net"
  /\ ret.exc = FrozenError
  /\ Cell(dev, 0, 0) # NoneObj
  /\ Cell(dev, 0, 0).routing_switches # <<>>
  /\ Cell(dev, 0, 0).col_buf_ctrl # 0
  /\ dev.nets[1] # NoneObj

\* C5: once the device is frozen, every tile placed in the grid and every
\* Net of the net array is frozen.
C5_FreezePropagated ==
  dev.frozen =>
    /\ \A y \in 1..Len(dev.tiles) : \A x \in 1..Len(dev.tiles[y]) :
          dev.tiles[y][x] # NoneObj => is_frozen(dev.tiles[y][x])
    /\ \A i \in 1..Len(dev.nets) : dev.nets[i] # NoneObj => is_frozen(dev.nets[i])

\* C30: freeze() of a device that is not frozen, whatever cells of its grid
\* hold tiles and whatever nets of its net array were ingested, returns
\* without error, and after it every ingested Net is frozen.
C30_FreezeTotal ==
  [][ (ret'.op = "freeze" /\ ~dev.frozen) =>
        /\ ~Raised(ret')
        /\ \A i \in 1..Len(dev'.nets) : dev'.nets[i] # NoneObj => is_frozen(dev'.nets[i]) ]_vars

-----------------------------------------------------------------------------
(* SpecDevice: encode, decode and reset on a device built from the chipdb   *)
(* in the driver's order -- schemas, tiles, nets, routing switch, buffer,   *)
(* freeze.  Cell (1,0) may be left empty; the device then has no net.       *)

RECURSIVE WithNets(_, _)
WithNets(d, idx) ==
  IF idx >= NumNets
  THEN d
  ELSE WithNets(IF NetPlaced(d, idx) THEN process_net(d, NetSection(idx)).self ELSE d, idx + 1)

WithResources(d) ==
  IF \A i \in 1..Len(d.nets) : d.nets[i] # NoneObj
  THEN process_buffer(process_routing_switch(d, RoutingSection).self, BufferSection).self
  ELSE d

\* a, b: the kinds of the tile sections for cells (0,0) and (1,0), b = ""
\* for none
DeviceInit ==
  /\ \E a \in {"logic_tile", "ramb_tile"}, b \in {"", "io_tile", "ramt_tile"} :
       \E d0 \in {WithSchemas(NewDevice)} :
         \E d1 \in {place(d0, a).self} :
           \E d2 \in {IF b = "" THEN d1 ELSE place(d1, b).self} :
             \E d3 \in {WithNets(d2, 0)} :
               \E d4 \in {WithResources(d3)} :
                 dev = freeze(d4).self
  /\ rr = NoneObj
  /\ tile = NoneObj
  /\ ret = NoCall

GenerateBitstream ==
  LET g == DeviceConfig_generate_bitstream(dev)
  IN /\ ret' = Call("generate_bitstream", None, g.exc, g.value)
     /\ UNCHANGED <<rr, tile, dev>>

\* process_bitstream of the file holding the text
Decode(text) ==
  LET r == DeviceConfig_process_bitstream(dev, text)
  IN /\ dev' = r.self
     /\ ret' = Call("process_bitstream", text, r.exc, None)
     /\ UNCHANGED <<rr, tile>>

\* the text generate_bitstream has just returned is written to a file and
\* handed back
DecodeGenerated ==
  /\ ret.op = "generate_bitstream"
  /\ ~Raised(ret)
  /\ Decode(ret.value)

\* a kind other than the kind given
OtherType(type) == IF type = "logic_tile" THEN "io_tile" ELSE "logic_tile"

\* one-section texts: for a placed tile its kind with a bitmap of all '0' or
\* all '1' fields and a listed or an unlisted pattern for one resource, and
\* another kind; for an empty cell a logic_tile section
Texts(self) ==
  UNION { LET x == c[1]
              y == c[2]
              t == Cell(self, x, y)
          IN IF t = NoneObj
             THEN { Text("logic_tile", x, y, <<>>) }
             ELSE { Text(t.type, x, y, Bitmap(t, ch, iv[1], iv[2])) :
                      ch \in {"0", "1"},
                      iv \in {<<1, 1>>, <<2, 1>>, <<1, Pow2(NumCtrlBits) - 1>>} }
                    \cup { Text(OtherType(t.type), x, y, Uniform(t, "0")) }
        : c \in Range(RowMajor(self.tiles)) }

\* the grid positions that hold a tile
Placed(self) == { c \in Range(RowMajor(self.tiles)) : Cell(self, c[1], c[2]) # NoneObj }

\* two-section texts: a section of the right kind for one placed tile, then a
\* section of another kind addressed to a second placed tile
Mixed(self) ==
  { Text(Cell(self, c1[1], c1[2]).type, c1[1], c1[2], Bitmap(Cell(self, c1[1], c1[2]), "1", 1, 1))
      \o <<MarkerLine(OtherType(Cell(self, c2[1], c2[2]).type), c2)>>
      \o BodyLines(Uniform(Cell(self, c2[1], c2[2]), "0"))
    : <<c1, c2>> \in { p \in Placed(self) \X Placed(self) : p[1] # p[2] } }

Reset ==
  LET r == DeviceConfig_reset(dev)
  IN /\ dev' = r.self
     /\ ret' = Call("reset", None, r.exc, None)
     /\ UNCHANGED <<rr, tile>>

\* connect(src_net) on resource i of the tile at (x, y)
ConnectAt(x, y, i, src_net) ==
  /\ Cell(dev, x, y) # NoneObj
  /\ i \in 1..Len(chain(Cell(dev, x, y)))
  /\ LET r == connect(chain(Cell(dev, x, y))[i], src_net)
     IN /\ dev' = SetCell(dev, x, y, SetResource(Cell(dev, x, y), i, r.self))
        /\ ret' = Call("connect", <<x, y, i, src_net>>, r.exc, None)
        /\ UNCHANGED <<rr, tile>>

DeviceNext ==
  \/ GenerateBitstream
  \/ DecodeGenerated
  \/ \E text \in Texts(dev) : Decode(text)
  \/ \E text \in Mixed(dev) : Decode(text)
  \/ Reset
  \/ \E x \in 0..(Width - 1), y \in 0..(Height - 1), i \in 1..2, src_net \in 0..NumNets : ConnectAt(x, y, i, src_net)

SpecDevice == DeviceInit /\ [][DeviceNext]_vars

\* C1: whenever generate_bitstream has returned the text of a frozen device,
\* process_bitstream of that text into the device returns and leaves every
\* field of every tile and the connection of every routing resource as it
\* was when the text was generated.
C1_RoundTrip ==
  (ret.op = "generate_bitstream" /\ ~Raised(ret) /\ dev.frozen)
    => DeviceConfig_process_bitstream(dev, ret.value) = [exc |-> NoExc, self |-> dev]

\* the marker lines of a text that open a tile section
TileMarkers(text) == SelectSeq(text, LAMBDA l : l.kind = "marker" /\ TileMatch(l.type))

\* the marker line names a placed tile of another kind
Mismatched(d, l) ==
  /\ Len(l.header) = 2
  /\ CellInRange(d, l.header[1], l.header[2])
  /\ Cell(d, l.header[1], l.header[2]) # NoneObj
  /\ Cell(d, l.header[1], l.header[2]).type # l.type

\* the index of the first tile section of the text that names a placed tile
\* of another kind, 0 when there is none
FirstMismatch(d, text) ==
  LET ms == TileMarkers(text)
      ks == { k \in 1..Len(ms) : Mismatched(d, ms[k]) }
  IN IF ks = {} THEN 0 ELSE Min(ks)

\* C11: process_bitstream of a text whose first section of a wrong kind
\* follows only sections addressed to other tiles raises the type-mismatch
\* error, and the tile that section names keeps every field value and every
\* connection.
C11_TypeMismatchLaw ==
  [][ (ret'.op = "process_bitstream" /\ FirstMismatch(dev, ret'.arg) # 0)
        => LET ms == TileMarkers(ret'.arg)
               k == FirstMismatch(dev, ret'.arg)
           IN /\ ret'.exc = TypeMismatch
              /\ (\A j \in 1..(k - 1) : ms[j].header # ms[k].header)
                    => Cell(dev', ms[k].header[1], ms[k].header[2])
                         = Cell(dev, ms[k].header[1], ms[k].header[2]) ]_vars

\* a section of another kind was addressed to a tile holding non-zero field
\* values, after a section that changed another tile
C11_Witness ==
  /\ ret.op = "process_bitstream"
  /\ ret.exc = TypeMismatch
  /\ Len(TileMarkers(ret.arg)) = 2
  /\ LET l == TileMarkers(ret.arg)[2]
     IN \E f \in Fields(Cell(dev, l.header[1], l.header[2]).type) :
           GetField(Cell(dev, l.header[1], l.header[2]), f) # 0

\* the section resource i of the tile at (0, 0) was declared by
DeclaredBy(i) == IF i = 1 THEN RoutingSection ELSE BufferSection

\* the bit references of the header of a routing or buffer section, in
\* header order
HeaderRefs(section) == SubSeq(section.header, 4, Len(section.header))

\* the bitmap holds the digits, as written, at the header's references
HoldsDigits(bitstream, section, digits) ==
  \A j \in 1..Len(HeaderRefs(section)) :
     CharAt(bitstream, get_config_bit_coordinates(HeaderRefs(section)[j])) = str(digits[j])

\* every resource of the tile at (0, 0) of d that is connected to the
\* source net of a body row has that row's digits at the header's references
\* in the tile's generated bitmap
EncodesDigits(d) ==
  \A i \in 1..Len(chain(Cell(d, 0, 0))) :
     \A row \in Range(DeclaredBy(i).lines) :
        chain(Cell(d, 0, 0))[i].connection = Ref(d.nets[row[2] + 1])
          => HoldsDigits(generate_bitstream(Cell(d, 0, 0)).value, DeclaredBy(i), row[1])

\* the positions of the marker lines of a text that open a tile section
TileSectionsAt(text) == { q \in 1..Len(text) : text[q].kind = "marker" /\ TileMatch(text[q].type) }

\* the bitmap of the one tile section of a text: the body lines after its
\* marker line up to the next marker line
OnlyBitmap(text) ==
  LET p == CHOOSE q \in TileSectionsAt(text) : TRUE
      later == { q \in (p + 1)..Len(text) : text[q].kind = "marker" }
      last == IF later = {} THEN Len(text) ELSE Min(later) - 1
  IN [k \in 1..(last - p) |-> text[p + k].text]

\* the text has one tile section and it names the tile at (0, 0)
OnlySectionAtOrigin(text) ==
  /\ Cardinality(TileSectionsAt(text)) = 1
  /\ \A q \in TileSectionsAt(text) : text[q].header = <<0, 0>>

\* C21: with the header's bit references h_0..h_{k-1} and a body row of
\* digits p_0..p_{k-1} for source net s, a resource connected to s is
\* encoded with digit p_j at h_j for every j, and process_bitstream of a
\* bitmap holding p_j at h_j for every j leaves the resource connected to s.
C21_ControlBitOrder ==
  [][ /\ Cell(dev', 0, 0) # NoneObj => EncodesDigits(dev')
      /\ (ret'.op = "process_bitstream" /\ ~Raised(ret') /\ OnlySectionAtOrigin(ret'.arg))
            => \A i \in 1..Len(chain(Cell(dev', 0, 0))) :
                  \A row \in Range(DeclaredBy(i).lines) :
                     HoldsDigits(OnlyBitmap(ret'.arg), DeclaredBy(i), row[1])
                       => chain(Cell(dev', 0, 0))[i].connection = Ref(dev'.nets[row[2] + 1]) ]_vars

\* process_bitstream has connected the routing switch to the source net
\* whose pattern is written 0 .. 0 1, which is not its own mirror image
C21_Witness ==
  /\ ret.op = "process_bitstream"
  /\ ~Raised(ret)
  /\ OnlySectionAtOrigin(ret.arg)
  /\ Len(chain(Cell(dev, 0, 0))) = 2
  /\ HoldsDigits(OnlyBitmap(ret.arg), RoutingSection, RoutingSection.lines[1][1])
  /\ chain(Cell(dev, 0, 0))[1].connection = Ref(dev.nets[RoutingSection.lines[1][2] + 1])
  /\ RoutingSection.lines[1][1] # reverse(RoutingSection.lines[1][1])

\* C7: whenever DeviceConfig.reset has been called it has returned, and
\* generate_bitstream of every placed tile then gives a bitmap of '0' only.
C7_ResetLaw ==
  ret.op = "reset"
    => /\ ~Raised(ret)
       /\ \A c \in Range(RowMajor(dev.tiles)) :
             Cell(dev, c[1], c[2]) # NoneObj
               => \A row \in Range(generate_bitstream(Cell(dev, c[1], c[2])).value) :
                     Range(row) \subseteq {"0"}

-----------------------------------------------------------------------------
(* SpecGrid: generate_bitstream and process_bitstream on a grid of          *)
(* GridWidth by GridHeight cells without nets.  Up to MaxPlaced tile        *)
(* sections, in any order, have placed tiles; the kind of the tile section  *)
(* that names a cell goes round the four kinds along the rows.  The device  *)
(* is frozen.                                                               *)

GridWidth == 2
GridHeight == 2
MaxPlaced == 2

Kinds == <<"logic_tile", "io_tile", "ramb_tile", "ramt_tile">>

GridKind(x, y) == Kinds[((x + GridWidth * y) % 4) + 1]

GridCells == { <<x, y>> : x \in 0..(GridWidth - 1), y \in 0..(GridHeight - 1) }

\* process_<type>(section) for the tile section ".<type> x y"
place_at(self, type, x, y) ==
  CASE type = "logic_tile" -> process_logic_tile(self, FileSection(type, <<x, y>>, <<>>))
    [] type = "io_tile"    -> process_io_tile(self, FileSection(type, <<x, y>>, <<>>))
    [] type = "ramb_tile"  -> process_ramb_tile(self, FileSection(type, <<x, y>>, <<>>))
    [] type = "ramt_tile"  -> process_ramt_tile(self, FileSection(type, <<x, y>>, <<>>))

\* the device after the tile sections naming these cells, in this order
RECURSIVE PlaceAll(_, _)
PlaceAll(d, cells) ==
  IF cells = <<>>
  THEN d
  ELSE PlaceAll(place_at(d, GridKind(Head(cells)[1], Head(cells)[2]),
                         Head(cells)[1], Head(cells)[2]).self,
                Tail(cells))

\* the sequences of up to n distinct cells
CellOrders(n) ==
  UNION { { s \in [1..k -> GridCells] : \A i, j \in 1..k : s[i] = s[j] => i = j } : k \in 0..n }

GridInit ==
  /\ \E cells \in CellOrders(MaxPlaced) :
       \E d0 \in {WithSchemas(DeviceConfig(DeviceType, GridWidth, GridHeight, 0))} :
         \E d1 \in {PlaceAll(d0, cells)} :
           dev = freeze(d1).self
  /\ rr = NoneObj
  /\ tile = NoneObj
  /\ ret = NoCall

GridGenerate == GenerateBitstream

\* process_bitstream of a one-section text for the cell (x, y): the kind of
\* the cell with every position of the bitmap the character c
GridDecode(x, y, c) ==
  Decode(Text(GridKind(x, y), x, y,
              IF Cell(dev, x, y) = NoneObj THEN <<>> ELSE Uniform(Cell(dev, x, y), c)))

GridNext ==
  \/ GridGenerate
  \/ \E x \in 0..(GridWidth - 1), y \in 0..(GridHeight - 1), c \in {"0", "1"} : GridDecode(x, y, c)

SpecGrid == GridInit /\ [][GridNext]_vars

\* the positions of the marker lines of a text that open a tile section
MarkerAt(text) == { i \in 1..Len(text) : text[i].kind = "marker" /\ TileMatch(text[i].type) }

\* the lines of the text after position p up to the next marker line
BlockBody(text, p) ==
  LET later == { q \in (p + 1)..Len(text) : text[q].kind = "marker" }
  IN SubSeq(text, p + 1, IF later = {} THEN Len(text) ELSE Min(later) - 1)

\* (x1, y1) comes before (x2, y2) in row-major order
RowMajorBefore(c1, c2) == c1[2] < c2[2] \/ (c1[2] = c2[2] /\ c1[1] < c2[1])

\* C12: the text generate_bitstream returns has one tile block for every
\* populated cell and none for an empty one; each block's header names the
\* kind, column and row of its tile and is followed by that tile's bitmap;
\* the blocks are in row-major order.
C12_EncodeOrder ==
  (ret.op = "generate_bitstream" /\ ~Raised(ret))
    => LET text == ret.value
       IN /\ Cardinality(MarkerAt(text)) = Cardinality(Placed(dev))
          /\ { text[p].header : p \in MarkerAt(text) } = Placed(dev)
          /\ \A p \in MarkerAt(text) :
                LET t == Cell(dev, text[p].header[1], text[p].header[2])
                IN /\ text[p].type = t.type
                   /\ BlockBody(text, p) = BodyLines(generate_bitstream(t).value)
          /\ \A p, q \in MarkerAt(text) :
                p < q <=> RowMajorBefore(text[p].header, text[q].header)

\* a text was generated for a grid holding a tile in a later column of an
\* earlier row and one in an earlier column of a later row, with an empty
\* cell before them
C12_Witness ==
  /\ ret.op = "generate_bitstream"
  /\ ~Raised(ret)
  /\ \E c1, c2 \in Placed(dev) : c1[2] < c2[2] /\ c1[1] > c2[1]
  /\ Cell(dev, 0, 0) = NoneObj

-----------------------------------------------------------------------------
(* SpecPlace: tile sections on a device of GridWidth by GridHeight cells    *)
(* under construction.  The schemas are ingested in the driver's order, and *)
(* tile sections may come before them.  The x of a tile section is one of   *)
(* -(GridWidth + 1), -1, 0 and GridWidth, its y one of -1, 0 and            *)
(* GridHeight; a section that names a cell of the grid comes while the grid *)
(* is empty.                                                                *)

\* the schema of a kind the device holds
SchemaOf(d, type) ==
  CASE type = "logic_tile" -> d.logic_tile_bit_config
    [] type = "io_tile"    -> d.io_tile_bit_config
    [] type = "ramb_tile"  -> d.ramb_tile_bits_config
    [] type = "ramt_tile"  -> d.ramt_tile_bits_config

\* process_<type>_bits(section) by kind
ingest(self, type) ==
  CASE type = "logic_tile" -> process_logic_tile_bit_config(self, BitsSection(type, Layout(type)))
    [] type = "io_tile"    -> process_io_tile_bit_config(self, BitsSection(type, Layout(type)))
    [] type = "ramb_tile"  -> process_ramb_tile_bit_config(self, BitsSection(type, Layout(type)))
    [] type = "ramt_tile"  -> process_ramt_tile_bit_config(self, BitsSection(type, Layout(type)))

PlacementOp(type) ==
  CASE type = "logic_tile" -> "process_logic_tile"
    [] type = "io_tile"    -> "process_io_tile"
    [] type = "ramb_tile"  -> "process_ramb_tile"
    [] type = "ramt_tile"  -> "process_ramt_tile"

PlacementOps == { PlacementOp(type) : type \in TileTypes }

\* the kind a placement method places
OpKind(op) == CHOOSE type \in TileTypes : PlacementOp(type) = op

PlaceXs == {-(GridWidth + 1), -1, 0, GridWidth}
PlaceYs == {-1, 0, GridHeight}

PlaceInit ==
  /\ dev = DeviceConfig(DeviceType, GridWidth, GridHeight, 0)
  /\ rr = NoneObj
  /\ tile = NoneObj
  /\ ret = NoCall

\* the next .*_tile_bits section in the driver's order
IngestNext ==
  \E k \in 1..Len(Kinds) :
     /\ SchemaOf(dev, Kinds[k]) = NoneObj
     /\ \A j \in 1..(k - 1) : SchemaOf(dev, Kinds[j]) # NoneObj
     /\ DevStep(ingest(dev, Kinds[k]), "process_tile_bit_config", Kinds[k])

PlaceTile(type, x, y) ==
  /\ CellInRange(dev, x, y) => Placed(dev) = {}
  /\ DevStep(place_at(dev, type, x, y), PlacementOp(type), <<x, y>>)

PlaceNext ==
  \/ IngestNext
  \/ \E type \in TileTypes, x \in PlaceXs, y \in PlaceYs : PlaceTile(type, x, y)

SpecPlace == PlaceInit /\ [][PlaceNext]_vars

\* C13: a placement made while the device holds no schema of that kind
\* raises and leaves the grid as it was, and every tile in the grid has the
\* schema of its kind.
C13_MissingSchema ==
  [][ /\ (ret'.op \in PlacementOps /\ SchemaOf(dev, OpKind(ret'.op)) = NoneObj)
          => (Raised(ret') /\ dev'.tiles = dev.tiles)
      /\ \A c \in Placed(dev') : Cell(dev', c[1], c[2]).bit_config # NoneObj ]_vars

\* C14: a placement with x outside 0..width-1 or y outside 0..height-1
\* raises and leaves every cell as it was; a placement with x and y within
\* them puts a tile in the cell at row y, column x and leaves every other
\* cell as it was.
C14_PlacementRange ==
  [][ ret'.op \in PlacementOps
        => LET x == ret'.arg[1]
               y == ret'.arg[2]
           IN IF x \in 0..(GridWidth - 1) /\ y \in 0..(GridHeight - 1)
              THEN /\ ~Raised(ret')
                   /\ dev'.tiles[y + 1][x + 1] # NoneObj
                   /\ \A r \in 1..GridHeight : \A c \in 1..GridWidth :
                         <<c, r>> # <<x + 1, y + 1>> => dev'.tiles[r][c] = dev.tiles[r][c]
              ELSE Raised(ret') /\ dev'.tiles = dev.tiles ]_vars

-----------------------------------------------------------------------------
(* SpecLookup: sections that name cells and net slots that may be empty.    *)
(* The device has its four schemas; the logic and io tile sections, the net *)
(* sections, the routing section, the buffer section and one-section        *)
(* bitstream texts come in any order, each chipdb section once.             *)

LookupNet(idx) ==
  /\ dev.nets[idx + 1] = NoneObj
  /\ ~DictHas(dev.wires, NetSection(idx).lines[1][3])
  /\ DevStep(process_net(dev, NetSection(idx)), "process_net", idx)

LookupRoutingSwitch ==
  /\ Cell(dev, 0, 0) # NoneObj => Cell(dev, 0, 0).routing_switches = <<>>
  /\ DevStep(process_routing_switch(dev, RoutingSection), "process_routing_switch", None)

LookupBuffer ==
  /\ Cell(dev, 0, 0) # NoneObj => Cell(dev, 0, 0).buffers = <<>>
  /\ DevStep(process_buffer(dev, BufferSection), "process_buffer", None)

\* process_bitstream of a text with one section of this kind for its cell
LookupDecode(type) ==
  Decode(Text(type, PlaceAt(type)[1], PlaceAt(type)[2],
              IF CellFree(type)
              THEN <<>>
              ELSE Uniform(Cell(dev, PlaceAt(type)[1], PlaceAt(type)[2]), "0")))

LookupNext ==
  \/ ProcessLogicTile
  \/ ProcessIoTile
  \/ \E idx \in 0..(NumNets - 1) : LookupNet(idx)
  \/ LookupRoutingSwitch
  \/ LookupBuffer
  \/ \E type \in {"logic_tile", "io_tile"} : LookupDecode(type)

SpecLookup == Init /\ [][LookupNext]_vars

\* the section of a routing or buffer call
ResourceSection(op) == IF op = "process_routing_switch" THEN RoutingSection ELSE BufferSection

\* the call names an empty grid cell or a net slot never ingested
LookupMiss(d, c) ==
  \/ /\ c.op = "process_net"
     /\ \E k \in 1..Len(NetSection(c.arg).lines) :
           Cell(d, NetSection(c.arg).lines[k][1], NetSection(c.arg).lines[k][2]) = NoneObj
  \/ /\ c.op \in {"process_routing_switch", "process_buffer"}
     /\ LET s == ResourceSection(c.op)
        IN \/ Cell(d, s.header[1], s.header[2]) = NoneObj
           \/ d.nets[s.header[3] + 1] = NoneObj
           \/ \E k \in 1..Len(s.lines) : d.nets[s.lines[k][2] + 1] = NoneObj
  \/ /\ c.op = "process_bitstream"
     /\ \E p \in MarkerAt(c.arg) : Cell(d, c.arg[p].header[1], c.arg[p].header[2]) = NoneObj

\* no routing resource of a tile has None as its destination or among its
\* candidate sources
NoAbsentNet(d) ==
  \A c \in Placed(d) :
     \A i \in 1..Len(chain(Cell(d, c[1], c[2]))) :
        /\ chain(Cell(d, c[1], c[2]))[i].dst_net # None
        /\ None \notin DictKeys(chain(Cell(d, c[1], c[2]))[i].src_net_to_bit_vals_dict)

\* C15: a call that names an empty grid cell or a net slot never ingested
\* raises, and no tile holds a routing resource whose destination or
\* candidate source is an absent net.
C15_LookupLaw ==
  [][ /\ LookupMiss(dev, ret') => Raised(ret')
      /\ NoAbsentNet(dev') ]_vars

-----------------------------------------------------------------------------
(* SpecSchema: the four .*_tile_bits sections, whole, with one field line   *)
(* left out, or with one field line given twice.  A kind is ingested once   *)
(* the kinds before it in the driver's order are stored, and may be         *)
(* ingested again.                                                          *)

\* process_<type>_bits(section) by kind, for any section
ingest_section(self, type, section) ==
  CASE type = "logic_tile" -> process_logic_tile_bit_config(self, section)
    [] type = "io_tile"    -> process_io_tile_bit_config(self, section)
    [] type = "ramb_tile"  -> process_ramb_tile_bit_config(self, section)
    [] type = "ramt_tile"  -> process_ramt_tile_bit_config(self, section)

SchemaOp(type) ==
  CASE type = "logic_tile" -> "process_logic_tile_bit_config"
    [] type = "io_tile"    -> "process_io_tile_bit_config"
    [] type = "ramb_tile"  -> "process_ramb_tile_bit_config"
    [] type = "ramt_tile"  -> "process_ramt_tile_bit_config"

SchemaOps == { SchemaOp(type) : type \in TileTypes }

\* the kind a schema method ingests
SchemaKind(op) == CHOOSE type \in TileTypes : SchemaOp(type) = op

\* the .*_tile_bits section of each kind
WholeSection == [type \in TileTypes |-> BitsSection(type, Layout(type))]

\* the field names of each kind
RequiredTokens == [type \in TileTypes |-> Range(FieldTokens(type))]

\* the section of a kind without its k-th field line
Dropped(type, k) ==
  LET s == WholeSection[type]
  IN [s EXCEPT !.lines = SubSeq(s.lines, 1, k - 1) \o SubSeq(s.lines, k + 1, Len(s.lines))]

\* the section of a kind with its k-th field line once more at the end
Doubled(type, k) ==
  LET s == WholeSection[type]
  IN [s EXCEPT !.lines = Append(s.lines, s.lines[k])]

\* the kinds before this one in the driver's order are stored
InOrder(type) ==
  \A j \in 1..Len(Kinds) :
     (\E k \in (j + 1)..Len(Kinds) : Kinds[k] = type) => SchemaOf(dev, Kinds[j]) # NoneObj

SchemaInit ==
  /\ dev = DeviceConfig(DeviceType, 0, 0, 0)
  /\ rr = NoneObj
  /\ tile = NoneObj
  /\ ret = NoCall

IngestSection(type, section) ==
  DevStep(ingest_section(dev, type, section), SchemaOp(type), section)

IngestWhole(type) ==
  /\ InOrder(type)
  /\ IngestSection(type, WholeSection[type])

IngestDropped(type) ==
  /\ InOrder(type)
  /\ \E k \in 1..Len(WholeSection[type].lines) : IngestSection(type, Dropped(type, k))

IngestDoubled(type) ==
  /\ InOrder(type)
  /\ \E k \in 1..Len(WholeSection[type].lines) : IngestSection(type, Doubled(type, k))

SchemaNext ==
  \/ \E type \in TileTypes : IngestWhole(type)
  \/ \E type \in TileTypes : IngestDropped(type)
  \/ \E type \in TileTypes : IngestDoubled(type)

SpecSchema == SchemaInit /\ [][SchemaNext]_vars

\* a field name of the kind heads no line of the section
Incomplete(type, section) ==
  ~(RequiredTokens[type] \subseteq { section.lines[k][1] : k \in 1..Len(section.lines) })

\* two lines of the section have the same field name
Repeated(section) ==
  \E i, j \in 1..Len(section.lines) : i # j /\ section.lines[i][1] = section.lines[j][1]

\* C16: a schema ingestion whose section leaves a required slot of its kind
\* unpopulated raises and leaves the device, its stored schema of that kind
\* included, as it was; the stored schema of a kind changes only by a
\* section that populates every slot.
C16_IncompleteSchema ==
  [][ ret'.op \in SchemaOps
        => /\ Incomplete(SchemaKind(ret'.op), ret'.arg) => (Raised(ret') /\ dev' = dev)
           /\ SchemaOf(dev', SchemaKind(ret'.op)) # SchemaOf(dev, SchemaKind(ret'.op))
                 => ~Incomplete(SchemaKind(ret'.op), ret'.arg) ]_vars

\* an incomplete section of a kind whose schema is stored was refused and
\* the stored schema is still there
C16_Witness ==
  /\ ret.op = "process_ramb_tile_bit_config"
  /\ Incomplete("ramb_tile", ret.arg)
  /\ Raised(ret)
  /\ SchemaOf(dev, "ramb_tile") # NoneObj

\* C17: a schema ingestion raises when its section has two lines with the
\* same field name, and when the device already holds a schema of that
\* kind.
C17_DuplicateRejected ==
  [][ (/\ ret'.op \in SchemaOps
       /\ Repeated(ret'.arg) \/ SchemaOf(dev, SchemaKind(ret'.op)) # NoneObj)
        => Raised(ret') ]_vars

-----------------------------------------------------------------------------
(* SpecConcurrent: two calls in progress at once on a frozen device, one on *)
(* the tile at (0, 0), which has a routing switch and a buffer, and one on  *)
(* the tile at (1, 0).  Each call is generate_bitstream() or                *)
(* process_bitstream(bitmap) of its tile and advances one statement group   *)
(* at a time: one routing resource, one field, or the return.  ret holds    *)
(* the device as it was when the calls began and the frame of each call:    *)
(* its tile's cell, its method and argument, its position, its builder, and *)
(* what it has raised or returned.                                          *)

\* the fields of a kind in the order generate_bitstream and
\* process_bitstream take them
FieldOrder(type) ==
  CASE type = "logic_tile" ->
         <<<<"carry_in_set", 0>>, <<"col_buf_ctrl", 0>>>>
           \o [idx \in 1..8 |-> <<"lc_bits", idx>>]
           \o <<<<"neg_clk", 0>>>>
    [] type = "io_tile" ->
         << <<"col_buf_ctrl", 0>>, <<"iob_0_pintype", 0>>, <<"iob_1_pintype", 0>>,
            <<"icegate", 0>>, <<"io_ctrl_ie_0", 0>>, <<"io_ctrl_ie_1", 0>>,
            <<"io_ctrl_lvds", 0>>, <<"io_ctrl_ren_0", 0>>, <<"io_ctrl_ren_1", 0>>,
            <<"negclk", 0>>, <<"pll_config", 0>> >>
    [] type = "ramb_tile" ->
         << <<"col_buf_ctrl", 0>>, <<"negclk", 0>>, <<"ram_config_powerup", 0>> >>
    [] type = "ramt_tile" ->
         << <<"negclk", 0>>, <<"ram_config", 0>>, <<"ram_cascade", 0>> >>

\* the fields written by one set_bit and read from one position
Flags ==
  { "carry_in_set", "neg_clk", "negclk", "icegate", "io_ctrl_ie_0", "io_ctrl_ie_1",
    "io_ctrl_lvds", "io_ctrl_ren_0", "io_ctrl_ren_1", "ram_config_powerup" }

\* the statement groups of a method of the tile t, in order
Steps(t, op) ==
  LET fields == [k \in 1..Len(FieldOrder(t.type)) |-> <<"field", FieldOrder(t.type)[k]>>]
      resources == [i \in 1..Len(chain(t)) |-> <<"resource", i>>]
  IN IF op = "process_bitstream"
     THEN resources \o fields \o <<<<"return", 0>>>>
     ELSE fields \o resources \o <<<<"return", 0>>>>

\* the frame of a call of op(arg) on the tile at cell c of d, about to begin
Frame(d, c, op, arg) ==
  [ cell |-> c, op |-> op, arg |-> arg, pc |-> 1,
    builder |-> IF op = "generate_bitstream"
                THEN BitstreamBuilder(Cell(d, c[1], c[2]).bit_config.width,
                                      Cell(d, c[1], c[2]).bit_config.height)
                ELSE <<>>,
    done |-> FALSE, exc |-> NoExc, value |-> None ]

\* every frame's self bound to the one tile at (0, 0)
Self_shared(f) == <<0, 0>>

\* the tile a frame's self is bound to
Self(f) == f.cell

\* self.<field> = the value read from the bitmap
decode_field(t, bitstream, f) ==
  SetField(t, f,
           IF f[1] = "carry_in_set" THEN read_bit(bitstream, FieldCoords(t, f)[1])
           ELSE IF f[1] \in Flags THEN bool(read_bit(bitstream, FieldCoords(t, f)[1]))
           ELSE read_bits(bitstream, FieldCoords(t, f)))

\* the set_bit calls of one field
encode_field(t, config, f) ==
  IF f[1] \in Flags \/ (t.type = "io_tile" /\ f[1] = "col_buf_ctrl")
  THEN set_bit(config, FieldCoords(t, f)[1], GetField(t, f))
  ELSE write_bits(config, FieldCoords(t, f), GetField(t, f))

\* the bitmaps handed to process_bitstream of the tile t
ConcBitmaps(t) == { Bitmap(t, "0", 1, 2), Bitmap(t, "1", 1, 1), Bitmap(t, "1", 2, Pow2(NumCtrlBits) - 1) }

\* the calls that can be made on the tile at cell c of d
ConcFrames(d, c) ==
  { Frame(d, c, "generate_bitstream", None) }
    \cup { Frame(d, c, "process_bitstream", b) : b \in ConcBitmaps(Cell(d, c[1], c[2])) }

\* the device after process_bitstream of a text that sets every field of
\* the tile at c to its maximum and connects its first resource
Preloaded(d, c) ==
  DeviceConfig_process_bitstream(
    d, Text(Cell(d, c[1], c[2]).type, c[1], c[2], Bitmap(Cell(d, c[1], c[2]), "1", 1, 1))).self

ConcInit ==
  /\ \E a \in {"logic_tile", "ramb_tile"}, b \in {"io_tile", "ramt_tile"}, pre \in BOOLEAN :
       \E d0 \in {WithSchemas(NewDevice)} :
         \E d1 \in {place(place(d0, a).self, b).self} :
           \E d2 \in {freeze(WithResources(WithNets(d1, 0))).self} :
             \E d3 \in {IF pre THEN Preloaded(Preloaded(d2, <<0, 0>>), <<1, 0>>) ELSE d2} :
               \E f1 \in ConcFrames(d3, <<0, 0>>), f2 \in ConcFrames(d3, <<1, 0>>) :
                  /\ dev = d3
                  /\ ret = [op |-> "concurrent", start |-> d3, frames |-> <<f1, f2>>]
  /\ rr = NoneObj
  /\ tile = NoneObj

\* the statement group call i is at
AtStep(i) ==
  LET f == ret.frames[i]
  IN Steps(Cell(dev, Self(f)[1], Self(f)[2]), f.op)[f.pc]

\* call i is at a statement group of this kind of this method
At_(i, op, kind) ==
  /\ ~ret.frames[i].done
  /\ ret.frames[i].op = op
  /\ AtStep(i)[1] = kind

\* the frame of call i becomes f and its tile t
ConcStep(i, f, t) ==
  /\ ret' = [ret EXCEPT !.frames[i] = f]
  /\ dev' = SetCell(dev, Self(ret.frames[i])[1], Self(ret.frames[i])[2], t)
  /\ UNCHANGED <<rr, tile>>

\* routing_resource.set_config_bits(bits read at its coordinates)
DecodeResource(i) ==
  /\ At_(i, "process_bitstream", "resource")
  /\ LET f == ret.frames[i]
         t == Cell(dev, Self(f)[1], Self(f)[2])
         k == AtStep(i)[2]
         r == set_config_bits(chain(t)[k], read_bits(f.arg, chain(t)[k].config_bit_coordinates))
     IN IF Raised(r)
        THEN ConcStep(i, [f EXCEPT !.exc = r.exc, !.done = TRUE], t)
        ELSE ConcStep(i, [f EXCEPT !.pc = @ + 1], SetResource(t, k, r.self))

DecodeField(i) ==
  /\ At_(i, "process_bitstream", "field")
  /\ LET f == ret.frames[i]
         t == Cell(dev, Self(f)[1], Self(f)[2])
     IN ConcStep(i, [f EXCEPT !.pc = @ + 1], decode_field(t, f.arg, AtStep(i)[2]))

EncodeField(i) ==
  /\ At_(i, "generate_bitstream", "field")
  /\ LET f == ret.frames[i]
         t == Cell(dev, Self(f)[1], Self(f)[2])
     IN ConcStep(i, [f EXCEPT !.pc = @ + 1,
                              !.builder = encode_field(t, @, AtStep(i)[2])], t)

\* the set_bit calls of one routing resource
EncodeResource(i) ==
  /\ At_(i, "generate_bitstream", "resource")
  /\ LET f == ret.frames[i]
         t == Cell(dev, Self(f)[1], Self(f)[2])
         r == chain(t)[AtStep(i)[2]]
     IN ConcStep(i, [f EXCEPT !.pc = @ + 1,
                              !.builder = write_bits(@, r.config_bit_coordinates,
                                                     get_config_bits(r))], t)

Return(i) ==
  /\ \E op \in {"generate_bitstream", "process_bitstream"} : At_(i, op, "return")
  /\ LET f == ret.frames[i]
         t == Cell(dev, Self(f)[1], Self(f)[2])
     IN ConcStep(i, [f EXCEPT !.done = TRUE,
                              !.value = IF f.op = "generate_bitstream"
                                        THEN get_config_string(f.builder)
                                        ELSE None], t)

ConcNext ==
  \E i \in 1..2 :
     \/ DecodeResource(i)
     \/ DecodeField(i)
     \/ EncodeField(i)
     \/ EncodeResource(i)
     \/ Return(i)

SpecConcurrent == ConcInit /\ [][ConcNext]_vars

\* what call i of r has raised or returned and the tile it was made on in d
\* are those of the same call made on its own on the device r.start
Sequential(d, r, i) ==
  LET f == r.frames[i]
      c == f.cell
      t0 == Cell(r.start, c[1], c[2])
  IN IF f.op = "process_bitstream"
     THEN /\ Cell(d, c[1], c[2]) = process_bitstream(t0, f.arg).self
          /\ f.exc = process_bitstream(t0, f.arg).exc
     ELSE /\ Cell(d, c[1], c[2]) = t0
          /\ f.exc = generate_bitstream(t0).exc
          /\ f.value = generate_bitstream(t0).value

-----------------------------------------------------------------------------
(* SpecDriver: _process_chipdb_config(config_sections), one call on the     *)
(* DeviceConfig at a time.  ret is the frame of the driver: its argument,   *)
(* the sections it has sorted by type, the calls it has still to make, the  *)
(* calls it has made so far, and what it has raised or returned; dev is its *)
(* local device_config.                                                     *)

\* DeviceConfig(device_config_section); the numbers of a header are held as
\* the integers they denote
DeviceConfig_init(device_config_section) ==
  LET header == device_config_section.header
  IN IF Len(header) # 4
     THEN [exc |-> "Invalid device config", self |-> NoneObj]
     ELSE [exc |-> NoExc,
           self |-> DeviceConfig(header[1], header[2], header[3], header[4])]

\* the section types the driver passes over
IgnoredTypes ==
  { "pins", "gbufin", "gbufpin", "iolatch", "ieren", "colbuf", "ipcon_tile",
    "dsp0_tile_bits", "dsp3_tile_bits", "ipcon_tile_bits", "extra_cell", "extra_bits" }

\* the single-section slots and the section lists of the driver
SlotTypes == {"device", "logic_tile_bits", "io_tile_bits", "ramb_tile_bits", "ramt_tile_bits"}
ListTypes == {"logic_tile", "io_tile", "ramb_tile", "ramt_tile", "net", "buffer", "routing"}

NoSections ==
  [exc |-> NoExc,
   slot |-> [type \in SlotTypes |-> NoneObj],
   list |-> [type \in ListTypes |-> <<>>]]

\* the loop over config_sections, from the i-th on
RECURSIVE classify(_, _, _)
classify(acc, config_sections, i) ==
  IF i > Len(config_sections)
  THEN acc
  ELSE LET section == config_sections[i]
           section_type == get_type(section)
       IN IF section_type \in SlotTypes
          THEN classify([acc EXCEPT !.slot[section_type] = section], config_sections, i + 1)
          ELSE IF section_type \in ListTypes
          THEN classify([acc EXCEPT !.list[section_type] = Append(@, section)],
                        config_sections, i + 1)
          ELSE IF section_type \in IgnoredTypes
          THEN classify(acc, config_sections, i + 1)
          ELSE [acc EXCEPT !.exc = "Invalid config section type: " \o section_type]

\* one call per section of a list
CallsOf(op, sections) == [k \in 1..Len(sections) |-> <<op, sections[k]>>]

\* the nets after the routing switches and the buffers
Plan_nets_last(found) ==
  << <<"DeviceConfig", found.slot["device"]>>,
     <<"process_logic_tile_bit_config", found.slot["logic_tile_bits"]>>,
     <<"process_io_tile_bit_config", found.slot["io_tile_bits"]>>,
     <<"process_ramb_tile_bit_config", found.slot["ramb_tile_bits"]>>,
     <<"process_ramt_tile_bit_config", found.slot["ramt_tile_bits"]>> >>
    \o CallsOf("process_logic_tile", found.list["logic_tile"])
    \o CallsOf("process_io_tile", found.list["io_tile"])
    \o CallsOf("process_ramb_tile", found.list["ramb_tile"])
    \o CallsOf("process_ramt_tile", found.list["ramt_tile"])
    \o CallsOf("process_routing_switch", found.list["routing"])
    \o CallsOf("process_buffer", found.list["buffer"])
    \o CallsOf("process_net", found.list["net"])
    \o << <<"freeze", NoneObj>> >>

\* the statements after the loop, in order: each is a call and the section
\* it is made with
Plan(found) ==
  << <<"DeviceConfig", found.slot["device"]>>,
     <<"process_logic_tile_bit_config", found.slot["logic_tile_bits"]>>,
     <<"process_io_tile_bit_config", found.slot["io_tile_bits"]>>,
     <<"process_ramb_tile_bit_config", found.slot["ramb_tile_bits"]>>,
     <<"process_ramt_tile_bit_config", found.slot["ramt_tile_bits"]>> >>
    \o CallsOf("process_logic_tile", found.list["logic_tile"])
    \o CallsOf("process_io_tile", found.list["io_tile"])
    \o CallsOf("process_ramb_tile", found.list["ramb_tile"])
    \o CallsOf("process_ramt_tile", found.list["ramt_tile"])
    \o CallsOf("process_net", found.list["net"])
    \o CallsOf("process_routing_switch", found.list["routing"])
    \o CallsOf("process_buffer", found.list["buffer"])
    \o << <<"freeze", NoneObj>> >>

\* the message raised when the section of a call is None
NotFound(op) ==
  CASE op = "DeviceConfig" -> "Device config section not found"
    [] op = "process_logic_tile_bit_config" -> "Logic tile bit config not found"
    [] op = "process_io_tile_bit_config" -> "IO tile bit config not found"
    [] op = "process_ramb_tile_bit_config" -> "Ramb tile bit config not found"
    [] op = "process_ramt_tile_bit_config" -> "Ramt tile bit config not found"

\* device_config.<op>(section)
Issue(device_config, op, section) ==
  CASE op = "DeviceConfig" -> DeviceConfig_init(section)
    [] op \in SchemaOps -> ingest_section(device_config, SchemaKind(op), section)
    [] op = "process_logic_tile" -> process_logic_tile(device_config, section)
    [] op = "process_io_tile" -> process_io_tile(device_config, section)
    [] op = "process_ramb_tile" -> process_ramb_tile(device_config, section)
    [] op = "process_ramt_tile" -> process_ramt_tile(device_config, section)
    [] op = "process_net" -> process_net(device_config, section)
    [] op = "process_routing_switch" -> process_routing_switch(device_config, section)
    [] op = "process_buffer" -> process_buffer(device_config, section)
    [] op = "freeze" -> freeze(device_config)

DeviceSection == FileSection("device", <<DeviceType, Width, Height, NumNets>>, <<>>)

\* a chipdb with every section the driver uses
Chipdb ==
  << DeviceSection,
     WholeSection["logic_tile"], WholeSection["io_tile"],
     WholeSection["ramb_tile"], WholeSection["ramt_tile"],
     TileSection("logic_tile"), TileSection("io_tile") >>
    \o [k \in 1..NumNets |-> NetSection(k - 1)]
    \o << RoutingSection, BufferSection >>

\* lst without its k-th element, k = 0 for none
Without(lst, k) ==
  [i \in 1..(Len(lst) - (IF k = 0 THEN 0 ELSE 1)) |-> IF k = 0 \/ i < k THEN lst[i] ELSE lst[i + 1]]

Reversed(lst) == [i \in 1..Len(lst) |-> lst[Len(lst) + 1 - i]]

\* lst with its k-th element moved to the end
ToEnd(lst, k) == Append(Without(lst, k), lst[k])

\* the orders the sections are given in
Orders(lst) == {lst, Reversed(lst)} \cup { ToEnd(lst, k) : k \in 1..Len(lst) }

\* the chipdb files: one of the five single sections left out or none, one
\* of three further sections added or none, in each order
ChipdbFiles ==
  UNION { Orders(Without(Chipdb, k) \o extra) :
            k \in 0..5,
            extra \in { <<>>, <<FileSection("pins", <<>>, <<>>)>>,
                        <<FileSection("dsp1_tile_bits", <<>>, <<>>)>>,
                        <<TileSection("ramt_tile")>> } }

DriverInit ==
  /\ \E config_sections \in ChipdbFiles :
        ret = [ op |-> "_process_chipdb_config", arg |-> config_sections,
                pc |-> 0, plan |-> <<>>, log |-> <<>>,
                done |-> FALSE, exc |-> NoExc, value |-> NoneObj ]
  /\ dev = NoneObj
  /\ rr = NoneObj
  /\ tile = NoneObj

\* the loop over config_sections
Classify ==
  /\ ret.pc = 0
  /\ ~ret.done
  /\ LET found == classify(NoSections, ret.arg, 1)
     IN ret' = IF found.exc # NoExc
               THEN [ret EXCEPT !.done = TRUE, !.exc = found.exc]
               ELSE [ret EXCEPT !.pc = 1, !.plan = Plan(found)]
  /\ UNCHANGED <<rr, tile, dev>>

\* the next statement is a call of one of ops
DriverAt(ops) ==
  /\ ~ret.done
  /\ ret.pc >= 1
  /\ ret.pc <= Len(ret.plan)
  /\ ret.plan[ret.pc][1] \in ops

\* the None test of the statement, if any, and its call
DriverCall ==
  /\ LET op == ret.plan[ret.pc][1]
         section == ret.plan[ret.pc][2]
     IN IF op \in {"DeviceConfig"} \cup SchemaOps /\ section = NoneObj
        THEN /\ ret' = [ret EXCEPT !.done = TRUE, !.exc = NotFound(op)]
             /\ dev' = dev
        ELSE \E r \in {Issue(dev, op, section)} :
               /\ ret' = [ret EXCEPT !.log = Append(@, op),
                                     !.pc = @ + 1,
                                     !.done = Raised(r),
                                     !.exc = r.exc]
               /\ dev' = IF Raised(r) THEN dev ELSE r.self
  /\ UNCHANGED <<rr, tile>>

Construct ==
  /\ DriverAt({"DeviceConfig"})
  /\ DriverCall

IngestSchemas ==
  /\ DriverAt(SchemaOps)
  /\ DriverCall

PlaceTiles ==
  /\ DriverAt(PlacementOps)
  /\ DriverCall

ProcessNets ==
  /\ DriverAt({"process_net"})
  /\ DriverCall

ProcessRoutingSwitches ==
  /\ DriverAt({"process_routing_switch"})
  /\ DriverCall

ProcessBuffers ==
  /\ DriverAt({"process_buffer"})
  /\ DriverCall

FreezeDevice ==
  /\ DriverAt({"freeze"})
  /\ DriverCall

\* return device_config
ReturnDevice ==
  /\ ~ret.done
  /\ ret.pc = Len(ret.plan) + 1
  /\ ret' = [ret EXCEPT !.done = TRUE, !.value = dev]
  /\ UNCHANGED <<rr, tile, dev>>

DriverNext ==
  \/ Classify
  \/ Construct
  \/ IngestSchemas
  \/ PlaceTiles
  \/ ProcessNets
  \/ ProcessRoutingSwitches
  \/ ProcessBuffers
  \/ FreezeDevice
  \/ ReturnDevice

SpecDriver == DriverInit /\ [][DriverNext]_vars

\* the place of a call in the order device header, four schemas, tile
\* placements, nets, routing switches, buffers, freeze
Rank(op) ==
  CASE op = "DeviceConfig" -> 1
    [] op = "process_logic_tile_bit_config" -> 2
    [] op = "process_io_tile_bit_config" -> 3
    [] op = "process_ramb_tile_bit_config" -> 4
    [] op = "process_ramt_tile_bit_config" -> 5
    [] op \in PlacementOps -> 6
    [] op = "process_net" -> 7
    [] op = "process_routing_switch" -> 8
    [] op = "process_buffer" -> 9
    [] op = "freeze" -> 10

\* the calls a section of that type is ingested by
OpsOf(type) ==
  CASE type = "device" -> {"DeviceConfig"}
    [] type \in { BitsType(t) : t \in TileTypes } ->
         { SchemaOp(t) : t \in {u \in TileTypes : BitsType(u) = type} }
    [] type \in TileTypes -> {PlacementOp(type)}
    [] type = "net" -> {"process_net"}
    [] type = "routing" -> {"process_routing_switch"}
    [] type = "buffer" -> {"process_buffer"}
    [] OTHER -> {}

\* how many elements of lst are in S
Count(lst, S) == Cardinality({i \in 1..Len(lst) : lst[i] \in S})

Types(config_sections) == [i \in 1..Len(config_sections) |-> config_sections[i].type]

\* C19: whatever the order of the sections, the calls made so far are in
\* the order device header, logic, io, ramb, ramt schema, tile placements,
\* nets, routing switches, buffers, freeze, the header, each schema and
\* freeze at most once and nothing after freeze; with the device section or
\* a schema section missing the driver makes no call of that step or of a
\* later one and ends by raising; and when it returns it has made one call
\* for each tile, net, routing and buffer section and then freeze, and what
\* it returns is the frozen device.
C19_DriverOrder ==
  ret.op = "_process_chipdb_config"
    => /\ \A i, j \in 1..Len(ret.log) :
             i < j => \/ Rank(ret.log[i]) < Rank(ret.log[j])
                      \/ /\ Rank(ret.log[i]) = Rank(ret.log[j])
                         /\ Rank(ret.log[i]) \in 6..9
                         /\ (Rank(ret.log[i]) = 6
                               => Count(<<"process_logic_tile", "process_io_tile",
                                          "process_ramb_tile", "process_ramt_tile">>,
                                        {ret.log[i]})
                                  = 1)
       /\ \A type \in SlotTypes :
             type \notin Range(Types(ret.arg))
               => /\ \A i \in 1..Len(ret.log) : Rank(ret.log[i]) < Rank(CHOOSE op \in OpsOf(type) : TRUE)
                  /\ ret.done => Raised(ret)
       /\ (ret.done /\ ~Raised(ret))
             => /\ ret.log[Len(ret.log)] = "freeze"
                /\ \A type \in ListTypes :
                      Count(ret.log, OpsOf(type)) = Count(Types(ret.arg), {type})
                /\ \A type \in SlotTypes : Count(ret.log, OpsOf(type)) = 1
                /\ ret.value = dev
                /\ ret.value.frozen

\* the driver has returned the device built from sections given with the
\* buffer first and the device header last
C19_Witness ==
  /\ ret.op = "_process_chipdb_config"
  /\ ret.done
  /\ ~Raised(ret)
  /\ ret.value.frozen
  /\ ret.arg[1].type = "buffer"
  /\ ret.arg[Len(ret.arg)].type = "device"
  /\ "process_buffer" \in Range(ret.log)

-----------------------------------------------------------------------------
(* SpecReader: read_file on the lines of a file.  ret is the last call: its *)
(* argument, the lines, and the list of sections it returned or what it     *)
(* raised.                                                                  *)

MaxLines == 3

BlankLine == [kind |-> "blank", type |-> "", header |-> <<>>, text |-> <<>>]
CommentLine == [kind |-> "comment", type |-> "", header |-> <<>>, text |-> <<>>]

\* the lines a file is made of
FileLines ==
  { BlankLine, CommentLine, MarkerLine("device", <<DeviceType>>),
    MarkerLine("logic_tile", <<0, 0>>), BodyLine(<<"0", "1">>) }

\* the files of up to MaxLines lines
ReaderFiles == UNION { [1..n -> FileLines] : n \in 0..MaxLines }

ReaderInit ==
  /\ ret = NoCall
  /\ dev = NoneObj
  /\ rr = NoneObj
  /\ tile = NoneObj

ReadFile ==
  /\ \E lines \in ReaderFiles :
        \E r \in {read_file(lines)} :
           ret' = Call("read_file", lines, r.exc, r.sections)
  /\ UNCHANGED <<rr, tile, dev>>

ReaderNext == ReadFile

SpecReader == ReaderInit /\ [][ReaderNext]_vars

\* the positions of the marker lines, in order
RECURSIVE Markers(_, _)
Markers(lines, i) ==
  IF i > Len(lines) THEN <<>>
  ELSE (IF lines[i].kind = "marker" THEN <<i>> ELSE <<>>) \o Markers(lines, i + 1)

\* the texts of the body lines at positions i..j
RECURSIVE BodyBetween(_, _, _)
BodyBetween(lines, i, j) ==
  IF i > j THEN <<>>
  ELSE (IF lines[i].kind = "body" THEN <<lines[i].text>> ELSE <<>>)
         \o BodyBetween(lines, i + 1, j)

\* C20: read_file returns one section for each marker line, in order, with
\* the marker line's type and header and the body lines that follow it up
\* to the next marker line; the list is as long as there are marker lines.
C20_ReaderLaw ==
  (ret.op = "read_file" /\ ~Raised(ret))
    => LET m == Markers(ret.arg, 1)
       IN /\ Len(ret.value) = Len(m)
          /\ \A k \in 1..Len(m) :
                ret.value[k]
                  = FileSection(ret.arg[m[k]].type, ret.arg[m[k]].header,
                                BodyBetween(ret.arg, m[k] + 1,
                                            IF k < Len(m) THEN m[k + 1] - 1 ELSE Len(ret.arg)))

-----------------------------------------------------------------------------
(* SpecNets: net sections on a device under construction whose two cells    *)
(* hold a tile.  A section names a net index and up to MaxTriples (x, y,    *)
(* wire-name) triples; sections are ingested while the two tiles hold no    *)
(* more than MaxTriples + 1 wires between them.                             *)

MaxTriples == 2

\* the triples a net section is made of
Triples == { <<c[1], c[2], name>> : c \in {<<0, 0>>, <<1, 0>>}, name \in {"w0", "w1"} }

\* the bodies of up to MaxTriples triples
NetBodies == UNION { [1..n -> Triples] : n \in 0..MaxTriples }

NetsInit ==
  /\ \E a \in {"logic_tile", "ramb_tile"}, b \in {"io_tile", "ramt_tile"} :
       \E d0 \in {WithSchemas(NewDevice)} :
          dev = place(place(d0, a).self, b).self
  /\ rr = NoneObj
  /\ tile = NoneObj
  /\ ret = NoCall

\* the number of wires the two tiles hold
WiresHeld == Len(Cell(dev, 0, 0).wires) + Len(Cell(dev, 1, 0).wires)

IngestNet ==
  \E idx \in 0..(NumNets - 1), body \in NetBodies :
     /\ WiresHeld + Len(body) <= MaxTriples + 1
     /\ DevStep(process_net(dev, FileSection("net", <<idx>>, body)), "process_net",
                FileSection("net", <<idx>>, body))

NetsNext == IngestNet

SpecNets == NetsInit /\ [][NetsNext]_vars

\* the wire names of a body
NamesOf(body) == { body[k][3] : k \in 1..Len(body) }

\* C22: after a process_net call that returned, the wire table holds the
\* Wires it held, unchanged, and one Wire for each further name of the
\* body; for every triple (x, y, name) of the body that Wire is in the wire
\* list of the tile at (x, y); and the Net stored at the section's index
\* maps the tile of every triple to the Wire of that triple's name.
C22_NetGraph ==
  [][ (ret'.op = "process_net" /\ ~Raised(ret'))
        => LET body == ret'.arg.lines
               idx == ret'.arg.header[1]
               net == dev'.nets[idx + 1]
           IN /\ DictKeys(dev'.wires) = DictKeys(dev.wires) \cup NamesOf(body)
              /\ Len(dev'.wires) = Cardinality(DictKeys(dev'.wires))
              /\ \A name \in DictKeys(dev.wires) :
                    DictGet(dev'.wires, name) = DictGet(dev.wires, name)
              /\ \A k \in 1..Len(body) :
                    /\ DictGet(dev'.wires, body[k][3])
                         \in Range(Cell(dev', body[k][1], body[k][2]).wires)
                    /\ DictHas(net.wires, Cell(dev', body[k][1], body[k][2]).id)
                    /\ DictGet(net.wires, Cell(dev', body[k][1], body[k][2]).id)
                         = DictGet(dev'.wires, body[k][3]) ]_vars

-----------------------------------------------------------------------------
(* SpecSlots: the four .*_tile_bits sections with their lines in another    *)
(* order, with an indexed field line whose index lies below or above the    *)
(* field's declared range, and with a line of an unknown field name.  A     *)
(* kind is ingested once the kinds before it in the driver's order are      *)
(* stored, and may be ingested again.                                       *)

\* the prefixes of the indexed field names, the attribute of the schema
\* each fills, its lowest declared index and its number of slots
IndexedFields ==
  [ text |-> <<"ColBufCtrl.glb_netwk_", "LC_", "IOB_0.PINTYPE_", "IOB_1.PINTYPE_",
               "PLL.PLLCONFIG_", "RamConfig.CBIT_", "RamCascade.CBIT_">>,
    attr |-> <<"col_buf_ctrl_set_bits", "lc_set_bits", "iob_0_pintype", "iob_1_pintype",
               "pll_config", "ram_config_bits", "ram_cascade_bits">>,
    low |-> <<0, 0, 0, 0, 1, 0, ram_cascade_bit_offset>>,
    slots |-> <<8, 8, 6, 6, 9, 4, 4>> ]

\* the place of an indexed field name in IndexedFields
FieldNo(token) == CHOOSE n \in 1..Len(IndexedFields.text) : IndexedFields.text[n] = token.text

Indexed(token) == "num" \in DOMAIN token

\* the whole section of a kind with its lines last to first
Backwards(type) ==
  LET s == WholeSection[type]
  IN [s EXCEPT !.lines = [k \in 1..Len(s.lines) |-> s.lines[Len(s.lines) + 1 - k]]]

\* the k-th line of the whole section with its index moved by by
Moved(type, k, by) ==
  LET line == WholeSection[type].lines[k]
  IN [line EXCEPT ![1] = Name(line[1].text, line[1].num + by)]

\* the lines of a kind that can be moved below their field's range to an
\* index that is still a number
Lowerable(type) ==
  { k \in 1..Len(WholeSection[type].lines) :
       LET token == WholeSection[type].lines[k][1]
       IN Indexed(token) /\ token.num - IndexedFields.slots[FieldNo(token)] >= 0 }

\* the last line of each indexed field of a kind
Highest(type) ==
  { k \in 1..Len(WholeSection[type].lines) :
       LET token == WholeSection[type].lines[k][1]
       IN /\ Indexed(token)
          /\ token.num = IndexedFields.low[FieldNo(token)] + IndexedFields.slots[FieldNo(token)] - 1 }

\* the section with its k-th line's index below the range, in place of the
\* line or, with the references of another line, after the whole section
AliasedSections ==
  [type \in TileTypes |->
     { [WholeSection[type] EXCEPT !.lines[k] =
           Moved(type, k, -IndexedFields.slots[FieldNo(@[1])])] : k \in Lowerable(type) }
       \cup
     { [WholeSection[type] EXCEPT !.lines =
           Append(@, <<Moved(type, k, -IndexedFields.slots[FieldNo(@[k][1])])[1]>> \o Rest(@[1]))]
         : k \in Lowerable(type) }]

\* the whole section and a line with an index above the range
OutOfRangeSections ==
  [type \in TileTypes |->
     { [WholeSection[type] EXCEPT !.lines =
           Append(@, Moved(type, k, IndexedFields.slots[FieldNo(@[k][1])]))] : k \in Highest(type) }]

\* the whole section and a line of an unknown field name, first or last
UnrecognizedSections ==
  [type \in TileTypes |->
     { [WholeSection[type] EXCEPT !.lines = <<<<Word("Unknown")>> \o Rest(@[1])>> \o @],
       [WholeSection[type] EXCEPT !.lines = Append(@, <<Word("Unknown")>> \o Rest(@[1]))] }]

IngestReordered(type) ==
  /\ InOrder(type)
  /\ \E section \in {WholeSection[type], Backwards(type)} : IngestSection(type, section)

IngestAliased(type) ==
  /\ InOrder(type)
  /\ \E section \in AliasedSections[type] : IngestSection(type, section)

IngestOutOfRange(type) ==
  /\ InOrder(type)
  /\ \E section \in OutOfRangeSections[type] : IngestSection(type, section)

IngestUnrecognized(type) ==
  /\ InOrder(type)
  /\ \E section \in UnrecognizedSections[type] : IngestSection(type, section)

SlotsNext ==
  \/ \E type \in TileTypes : IngestReordered(type)
  \/ \E type \in TileTypes : IngestAliased(type)
  \/ \E type \in TileTypes : IngestOutOfRange(type)
  \/ \E type \in TileTypes : IngestUnrecognized(type)

SpecSlots == SchemaInit /\ [][SlotsNext]_vars

\* the section without the lines whose field name is not one of the kind's,
\* index included
Declared(type, section) ==
  [section EXCEPT !.lines = SelectSeq(@, LAMBDA line : line[1] \in RequiredTokens[type])]

\* what the line gives for its slot
LineValue(line) ==
  IF line[1].text = "LC_" THEN Coords(Rest(line)) ELSE get_config_bit_coordinates(line[2])

\* C23: after a schema ingestion that returned, every line of an indexed
\* field with a declared index has filled the slot of that index, whatever
\* the order of the lines, and the stored schema is the one the section
\* gives without its lines of an undeclared index or an unknown name; and a
\* section that lacks a field line with a declared index raises, a line
\* with another index filling no slot.
C23_SlotAssignment ==
  [][ ret'.op \in SchemaOps
        => LET type == SchemaKind(ret'.op)
               section == ret'.arg
               schema == SchemaOf(dev', type)
           IN /\ ~Raised(ret')
                   => /\ \A k \in 1..Len(section.lines) :
                            (section.lines[k][1] \in RequiredTokens[type] /\ Indexed(section.lines[k][1]))
                              => schema[IndexedFields.attr[FieldNo(section.lines[k][1])]]
                                       [section.lines[k][1].num
                                          - IndexedFields.low[FieldNo(section.lines[k][1])] + 1]
                                   = LineValue(section.lines[k])
                      /\ schema = SchemaOf(ingest_section(dev, type, Declared(type, section)).self, type)
              /\ Incomplete(type, section) => Raised(ret') ]_vars

-----------------------------------------------------------------------------
(* SpecFrame: the device of SpecDevice with, besides its calls, the calls   *)
(* made on one tile or one routing resource of the frozen device:           *)
(* Tile.generate_bitstream, Tile.reset, disconnect and set_config_bits.     *)

\* disconnect() on resource i of the tile at (x, y)
DisconnectAt(x, y, i) ==
  /\ Cell(dev, x, y) # NoneObj
  /\ i \in 1..Len(chain(Cell(dev, x, y)))
  /\ dev' = SetCell(dev, x, y, SetResource(Cell(dev, x, y), i, disconnect(chain(Cell(dev, x, y))[i])))
  /\ ret' = Call("disconnect", <<x, y, i>>, NoExc, None)
  /\ UNCHANGED <<rr, tile>>

\* set_config_bits(bit_config) on resource i of the tile at (x, y)
SetConfigBitsAt(x, y, i, bit_config) ==
  /\ Cell(dev, x, y) # NoneObj
  /\ i \in 1..Len(chain(Cell(dev, x, y)))
  /\ LET r == set_config_bits(chain(Cell(dev, x, y))[i], bit_config)
     IN /\ dev' = SetCell(dev, x, y, SetResource(Cell(dev, x, y), i, r.self))
        /\ ret' = Call("set_config_bits", <<x, y, i, bit_config>>, r.exc, None)
        /\ UNCHANGED <<rr, tile>>

\* reset() of the tile at (x, y)
TileResetAt(x, y) ==
  /\ Cell(dev, x, y) # NoneObj
  /\ dev' = SetCell(dev, x, y, reset(Cell(dev, x, y)))
  /\ ret' = Call("Tile.reset", <<x, y>>, NoExc, None)
  /\ UNCHANGED <<rr, tile>>

\* generate_bitstream() of the tile at (x, y)
TileGenerateAt(x, y) ==
  /\ Cell(dev, x, y) # NoneObj
  /\ LET g == generate_bitstream(Cell(dev, x, y))
     IN ret' = Call("Tile.generate_bitstream", <<x, y>>, g.exc, g.value)
  /\ UNCHANGED <<rr, tile, dev>>

FrameNext ==
  \/ GenerateBitstream
  \/ DecodeGenerated
  \/ \E text \in Texts(dev) : Decode(text)
  \/ Reset
  \/ \E x \in 0..(Width - 1), y \in 0..(Height - 1), i \in 1..2, src_net \in 0..NumNets : ConnectAt(x, y, i, src_net)
  \/ \E x \in 0..(Width - 1), y \in 0..(Height - 1), i \in 1..2 : DisconnectAt(x, y, i)
  \/ \E x \in 0..(Width - 1), y \in 0..(Height - 1), i \in 1..2, v \in Patterns : SetConfigBitsAt(x, y, i, v)
  \/ \E x \in 0..(Width - 1), y \in 0..(Height - 1) : TileResetAt(x, y)
  \/ \E x \in 0..(Width - 1), y \in 0..(Height - 1) : TileGenerateAt(x, y)

SpecFrame == DeviceInit /\ [][FrameNext]_vars

\* what of a routing resource is not its live connection
ResourceTopology(r) ==
  [ dst_net |-> r.dst_net,
    config_bit_coordinates |-> r.config_bit_coordinates,
    src_net_to_bit_vals_dict |-> r.src_net_to_bit_vals_dict ]

\* what of a tile is neither a field value nor a live connection
TileTopology(t) ==
  IF t = NoneObj
  THEN NoneObj
  ELSE [ type |-> t.type, x |-> t.x, y |-> t.y, id |-> t.id, frozen |-> t.frozen,
         bit_config |-> t.bit_config,
         wires |-> t.wires,
         routing_switches |-> [i \in 1..Len(t.routing_switches) |->
                                 ResourceTopology(t.routing_switches[i])],
         buffers |-> [i \in 1..Len(t.buffers) |-> ResourceTopology(t.buffers[i])] ]

\* the device but for the field values and live connections of its tiles
Topology(d) ==
  [d EXCEPT !.tiles = [y \in 1..Len(d.tiles) |->
                         [x \in 1..Len(d.tiles[y]) |-> TileTopology(d.tiles[y][x])]]]

\* C25: generate_bitstream of the device or of a tile changes nothing, and
\* a second one straight after returns the same text; process_bitstream,
\* reset, connect, disconnect and set_config_bits, returning or raising,
\* change at most field values and live connections: the placement of the
\* tiles, each tile's kind, schema, wire list and resource lists, each
\* resource's destination net, coordinates and candidates, the nets with
\* their tile-to-wire maps and the wire table are as they were.
C25_TopologyFrame ==
  [][ /\ Topology(dev') = Topology(dev)
      /\ ret'.op \in {"generate_bitstream", "Tile.generate_bitstream"}
            => /\ dev' = dev
               /\ (ret.op = ret'.op /\ ret.arg = ret'.arg) => ret' = ret ]_vars

\* process_bitstream has returned and left the tile at (0, 0) with a
\* connected resource and non-zero field values
C25_Witness ==
  /\ ret.op = "process_bitstream"
  /\ ~Raised(ret)
  /\ Cell(dev, 0, 0) # NoneObj
  /\ \E i \in 1..Len(chain(Cell(dev, 0, 0))) : chain(Cell(dev, 0, 0))[i].connection # None
  /\ \E f \in Fields(Cell(dev, 0, 0).type) : GetField(Cell(dev, 0, 0), f) # 0

-----------------------------------------------------------------------------
\* the live connection of a resource is none or one of its declared candidates
SingleConnection(r) ==
  \/ r.connection = None
  \/ DictHas(r.src_net_to_bit_vals_dict, r.connection)

\* C27: in every state reached by connect, disconnect, set_config_bits,
\* decode and reset calls, failing ones included, the live connection of each
\* routing resource of each placed tile is none or a declared candidate of
\* that resource, so that get_config_bits() finds its pattern.
C27_SingleConnection ==
  \A c \in Placed(dev) :
    \A i \in 1..Len(chain(Cell(dev, c[1], c[2]))) :
      SingleConnection(chain(Cell(dev, c[1], c[2]))[i])

\* a decode has failed, or a connect to an undeclared net has failed, on a
\* device one of whose resources stays connected
C27_Witness ==
  /\ ret.op \in {"process_bitstream", "connect"}
  /\ Raised(ret)
  /\ \E c \in Placed(dev) :
       \E i \in 1..Len(chain(Cell(dev, c[1], c[2]))) :
         chain(Cell(dev, c[1], c[2]))[i].connection # None

-----------------------------------------------------------------------------
-----------------------------------------------------------------------------
(* SpecPartial: decoding bitstream files that address some of the tiles.   *)
(* The device is the frozen device of SpecDevice.  A file holds one or two *)
(* sections: tile sections for placed tiles (the coordinates non-negative, *)
(* or negative and counted from the end of the row as the list index takes *)
(* them), and sections of the other types a bitstream or chipdb file has.  *)
(* connect and disconnect give the tiles values a decode could lose.       *)

\* section types that are not one of the four tile types
OtherTypes == {"comment", "ram_data", "extra_bit", "logic_tile_bits"}

\* the lines of a section of another type
OtherLines(type) ==
  <<MarkerLine(type, IF type = "comment" THEN <<>> ELSE <<0, 0>>), BodyLine(<<"1", "0">>)>>

\* the lines of a tile section for the placed tile at c, headed by the
\* coordinates hdr
TileLines(self, c, hdr, ch, v) ==
  <<MarkerLine(Cell(self, c[1], c[2]).type, hdr)>>
    \o BodyLines(Bitmap(Cell(self, c[1], c[2]), ch, 1, v))

\* the tile sections for the placed tile at c: all fields '1' and resource 1
\* at pattern 1, all bits '0', and the first again with x counted from the
\* end of the row
TileSections(self, c) ==
  { TileLines(self, c, c, "1", 1), TileLines(self, c, c, "0", 0),
    TileLines(self, c, <<-1, c[2]>>, "1", 1) }

OtherSections == { OtherLines(type) : type \in OtherTypes }

\* the sections of a file: a tile section alone, a section of another type
\* alone, one of each in either order, and two tile sections for two tiles
PartialSections(self) ==
  UNION { TileSections(self, c) : c \in Placed(self) }
  \cup OtherSections
  \cup UNION { { a \o OtherLines("ram_data") : a \in TileSections(self, c) } : c \in Placed(self) }
  \cup { b \o TileLines(self, c, c, "1", 1) : b \in OtherSections, c \in Placed(self) }
  \cup { TileLines(self, p[1], p[1], "1", 1) \o TileLines(self, p[2], p[2], "0", 0) :
          p \in { q \in Placed(self) \X Placed(self) : q[1] # q[2] } }

\* the files: the sections after the .device line
PartialTexts(self) ==
  { <<MarkerLine("device", <<DeviceType>>)>> \o a : a \in PartialSections(self) }

DecodePartial ==
  \E text \in PartialTexts(dev) : Decode(text)

PartialNext ==
  \/ DecodePartial
  \/ \E x \in 0..(Width - 1), y \in 0..(Height - 1), i \in 1..2, src_net \in 0..NumNets : ConnectAt(x, y, i, src_net)
  \/ \E x \in 0..(Width - 1), y \in 0..(Height - 1), i \in 1..2 : DisconnectAt(x, y, i)

SpecPartial == DeviceInit /\ [][PartialNext]_vars

\* the grid positions self._tiles[y][x] that the sections of one of the four
\* tile types name in their headers
Addressed(self, text) ==
  { <<At(self.tiles[At(self.tiles, text[q].header[2])], text[q].header[1]) - 1,
      At(self.tiles, text[q].header[2]) - 1>> :
      q \in { p \in 1..Len(text) : /\ text[p].kind = "marker"
                                   /\ text[p].type \in TileTypes
                                   /\ Len(text[p].header) = 2
                                   /\ CellInRange(self, text[p].header[1], text[p].header[2]) } }

\* the lines of text without the sections of types other than the four
\* tile types; keep: the line before was kept
RECURSIVE TileSectionsOnly(_, _)
TileSectionsOnly(text, keep) ==
  IF text = <<>>
  THEN <<>>
  ELSE LET k == IF Head(text).kind = "marker" THEN Head(text).type \in TileTypes ELSE keep
       IN (IF k THEN <<Head(text)>> ELSE <<>>) \o TileSectionsOnly(Tail(text), k)

\* C28: process_bitstream changes the field values and connections only of
\* the tiles that a section of type io_tile, logic_tile, ramb_tile or
\* ramt_tile addresses: every other placed tile is after the call what it was
\* before it, and the sections of any other type have no effect on the
\* device, which is after the call what the file without them makes it.
C28_DecodeFrame ==
  [][ ret'.op = "process_bitstream" =>
        /\ \A c \in Placed(dev) \ Addressed(dev, ret'.arg) :
             Cell(dev', c[1], c[2]) = Cell(dev, c[1], c[2])
        /\ dev' = DeviceConfig_process_bitstream(
                    dev, <<MarkerLine("device", <<DeviceType>>)>>
                           \o TileSectionsOnly(ret'.arg, FALSE)).self ]_vars

-----------------------------------------------------------------------------
-----------------------------------------------------------------------------
(* SpecFail: Tile.process_bitstream of bitmaps whose resource patterns may *)
(* be unlisted.  The tile is the tile of SpecTile, with its switch (the    *)
(* candidates 1 -> 1 and 2 -> 2) and its buffer (the candidate 3 -> 1); a  *)
(* bitmap gives each of the two a listed pattern, 0 or the unlisted        *)
(* pattern of all ones, and every field all '0' or all '1'.                *)

\* a bitmap of the tile's rectangle: the control bits of resource j hold the
\* pattern vs[j], every other position the character c
Bitmap2(self, c, vs) ==
  [y \in 1..self.bit_config.height |->
     [x \in 1..self.bit_config.width |->
        LET at(j) == { k \in 1..Len(chain(self)[j].config_bit_coordinates) :
                         chain(self)[j].config_bit_coordinates[k] = <<x - 1, y - 1>> }
            on == { j \in 1..Len(chain(self)) : at(j) # {} }
        IN IF on # {}
           THEN str(BitAt(vs[Min(on)], Min(at(Min(on))) - 1))
           ELSE c]]

TileProcessPatterns ==
  \E c \in {"0", "1"}, v1 \in {0, 1, 2, Pow2(NumCtrlBits) - 1}, v2 \in {0, 1, Pow2(NumCtrlBits) - 1} :
    TileProcess(Bitmap2(tile, c, <<v1, v2>>))

FailNext ==
  \/ TileProcessPatterns
  \/ TileReset

SpecFail == TileInit /\ [][FailNext]_vars

InvalidPattern == "Invalid routing resource bit config"

\* resource j of the tile after set_config_bits of the pattern the bitmap
\* holds at its control bits; [exc, self]
Decoded(self, bitstream, j) ==
  set_config_bits(chain(self)[j], read_bits(bitstream, chain(self)[j].config_bit_coordinates))

\* C29: when Tile.process_bitstream fails on a non-zero pattern that matches
\* no candidate of some resource, every named field of the tile has its
\* pre-call value, the first resource (switches, then buffers, in insertion
\* order) with such a pattern and all resources after it keep their pre-call
\* connection, and the resources before it hold the connection decoded from
\* the bitmap.
C29_FailurePoint ==
  [][ (ret'.op = "Tile.process_bitstream" /\ ret'.exc = InvalidPattern) =>
        /\ \A f \in Fields(tile.type) : GetField(tile', f) = GetField(tile, f)
        /\ \E k \in 1..Len(chain(tile)) :
             /\ Raised(Decoded(tile, ret'.arg, k))
             /\ \A j \in 1..(k - 1) :
                  /\ ~Raised(Decoded(tile, ret'.arg, j))
                  /\ chain(tile')[j].connection = Decoded(tile, ret'.arg, j).self.connection
             /\ \A j \in k..Len(chain(tile)) :
                  chain(tile')[j].connection = chain(tile)[j].connection ]_vars

\* a decode has failed at the buffer: the buffer is still connected, the
\* switch before it holds the connection of its pattern in the bitmap, and a
\* field the bitmap gives '1' bits is still 0
C29_Witness ==
  /\ ret.op = "Tile.process_bitstream"
  /\ ret.exc = InvalidPattern
  /\ Raised(Decoded(tile, ret.arg, 2))
  /\ chain(tile)[2].connection # None
  /\ chain(tile)[1].connection = 2
  /\ \E f \in Fields(tile.type) :
       /\ GetField(tile, f) = 0
       /\ CharAt(ret.arg, FieldCoords(tile, f)[1]) = "1"

-----------------------------------------------------------------------------
(* SpecRouting: one RoutingResource and its four methods.                  *)
(* The resource is constructed with any dict of candidate sources: up to   *)
(* NumSrcNets items, the keys among the nets 1..NumSrcNets and None (the   *)
(* key process_routing_switch stores for a net that was never ingested),   *)
(* the patterns any value of NumCtrlBits bits.                             *)



Dicts(keys, vals, maxlen) ==
  UNION { { d \in [1..n -> keys \X vals] :
              \A i, j \in 1..n : d[i][1] = d[j][1] => i = j } : n \in 0..maxlen }

CtrlCoords == [i \in 1..NumCtrlBits |-> <<i - 1, 0>>]

RoutingInit ==
  /\ rr \in { RoutingResource(1, CtrlCoords, d) :
                d \in Dicts(SrcNets \cup {None}, Patterns, NumSrcNets) }
  /\ tile = NoneObj
  /\ dev = NoneObj
  /\ ret = NoCall

Connect(src_net) ==
  LET r == connect(rr, src_net)
  IN /\ rr' = r.self
     /\ ret' = Call("connect", src_net, r.exc, None)
     /\ UNCHANGED <<tile, dev>>

Disconnect ==
  /\ rr' = disconnect(rr)
  /\ ret' = Call("disconnect", None, NoExc, None)
  /\ UNCHANGED <<tile, dev>>

GetConfigBits ==
  /\ ret' = Call("get_config_bits", None, NoExc, get_config_bits(rr))
  /\ UNCHANGED <<rr, tile, dev>>

SetConfigBits(bit_config) ==
  LET r == set_config_bits(rr, bit_config)
  IN /\ rr' = r.self
     /\ ret' = Call("set_config_bits", bit_config, r.exc, None)
     /\ UNCHANGED <<tile, dev>>

RoutingNext ==
  \/ \E src_net \in 0..(NumSrcNets + 1) : Connect(src_net)
  \/ Disconnect
  \/ GetConfigBits
  \/ \E bit_config \in Patterns : SetConfigBits(bit_config)

SpecRouting == RoutingInit /\ [][RoutingNext]_vars

\* the candidates of rr whose stored pattern is v
CandidatesWithPattern(v) ==
  { rr.src_net_to_bit_vals_dict[i][1] :
      i \in { j \in 1..Len(rr.src_net_to_bit_vals_dict) :
                rr.src_net_to_bit_vals_dict[j][2] = v } }

\* C8: connect(src) with src not a declared candidate fails and leaves the
\* live connection as it was; with src a declared candidate it makes src the
\* live connection, whatever was connected before.
C8_ConnectLaw ==
  [][ ret'.op = "connect" =>
        IF ret'.arg \in DictKeys(rr.src_net_to_bit_vals_dict)
        THEN ~Raised(ret') /\ rr'.connection = ret'.arg
        ELSE Raised(ret') /\ rr'.connection = rr.connection ]_vars

\* a connect with an undeclared source has failed on a connected resource
C8_Witness ==
  /\ ret.op = "connect"
  /\ Raised(ret)
  /\ ret.arg \notin DictKeys(rr.src_net_to_bit_vals_dict)
  /\ rr.connection # None

\* C9: set_config_bits(v), v # 0, connects to a candidate whose stored
\* pattern is v exactly when there is one; otherwise it fails and the live
\* connection is what it was.
C9_SetPatternLaw ==
  [][ (ret'.op = "set_config_bits" /\ ret'.arg # 0) =>
        IF CandidatesWithPattern(ret'.arg) # {}
        THEN ~Raised(ret') /\ rr'.connection \in CandidatesWithPattern(ret'.arg)
        ELSE Raised(ret') /\ rr'.connection = rr.connection ]_vars

\* set_config_bits of an unlisted non-zero pattern has failed on a resource
\* that has other candidates and stays connected
C9_Witness ==
  /\ ret.op = "set_config_bits"
  /\ ret.arg # 0
  /\ Raised(ret)
  /\ rr.connection # None
  /\ Len(rr.src_net_to_bit_vals_dict) = 2

\* C10: get_config_bits() returns the stored pattern of the live connection,
\* and 0 when disconnected; set_config_bits(0) and disconnect() leave the
\* resource disconnected, and get_config_bits() is then 0.
C10_GetPatternLaw ==
  [][ /\ ret'.op = "get_config_bits" =>
           IF rr.connection = None
           THEN ret'.value = 0
           ELSE \E i \in 1..Len(rr.src_net_to_bit_vals_dict) :
                  /\ rr.src_net_to_bit_vals_dict[i][1] = rr.connection
                  /\ rr.src_net_to_bit_vals_dict[i][2] = ret'.value
      /\ (ret'.op = "disconnect" \/ (ret'.op = "set_config_bits" /\ ret'.arg = 0)) =>
           /\ ~Raised(ret')
           /\ rr'.connection = None
           /\ get_config_bits(rr') = 0 ]_vars

\* get_config_bits() has returned the non-zero pattern of a live connection
C10_Witness ==
  /\ ret.op = "get_config_bits"
  /\ rr.connection # None
  /\ ret.value # 0

\* C26: for every routing resource and every declared candidate s of it,
\* connect(s) followed by set_config_bits(get_config_bits()) leaves the
\* resource connected to s: the pattern read back after a connect selects
\* the connected candidate again.
C26_ReversibleLookup ==
  [][ ( /\ ret.op = "connect"
        /\ ~Raised(ret)
        /\ ret'.op = "set_config_bits"
        /\ ret'.arg = get_config_bits(rr) )
      => ( /\ ~Raised(ret')
           /\ rr'.connection = ret.arg ) ]_vars

=============================================================================
